---------------------------- MODULE Spec2Model ----------------------------
(***************************************************************************)
(* libbitsub: PGS (.sup) and VobSub (.idx/.sub) subtitle decoders.         *)
(*                                                                         *)
(* The module holds one state machine per decoder object and one           *)
(* specification per group of operations:                                  *)
(*   SpecPgs   PgsParser: parse, render_at_index, clear_cache,             *)
(*             find_index_at_timestamp                 (src/pgs/parser.rs) *)
(*   SpecHist  the same machine with a record of the frames returned       *)
(*   SpecVob   VobSubParser: load, find_index_at_timestamp, clear_cache    *)
(*                                             (src/vobsub/vobsub_parser.rs)*)
(*   SpecBs    binary_search_timestamp                      (src/utils.rs) *)
(*   SpecRle   decode_rle_to_indexed                      (src/pgs/rle.rs) *)
(*                                                                         *)
(* Conventions.  Option<T> is a sequence of length 0 (None) or 1 (Some).   *)
(* Vec indices are 0-based in the source and 1-based here: element k of a  *)
(* Vec v is v[k + 1].  A packed RGBA u32 is the tuple of its four          *)
(* little-endian bytes <<r, g, b, a>>.  HashMaps are functions whose       *)
(* domain is the set of keys present.                                      *)
(***************************************************************************)
EXTENDS Integers, Sequences, FiniteSets, TLC

VARIABLES
    \* PgsParser (src/pgs/parser.rs:16-27)
    display_sets, timestamps_ms, indexed_cache, last_boundary_index, rgba_buffer,
    \* the .sup stream the host holds, the last PgsParser call and what it returned
    sup_input, pgs_call, pgs_ret,
    \* history of the PgsParser run: the boundary in effect when each cache entry
    \* was decoded; the frames returned per index since the recorded boundary last
    \* changed; the last two render_at_index calls in a row
    cache_epoch, rendered, hist,
    \* VobSubParser (src/vobsub/vobsub_parser.rs:16-27)
    idx_data, sub_data, vs_timestamps_ms, packet_cache,
    \* the .idx entries and the .sub file the host holds, the last VobSubParser
    \* call and what it returned
    idx_entries, sub_file, vob_call, vob_ret,
    \* binary_search_timestamp: its arguments and its result
    bs_timestamps, bs_target, bs_ret,
    \* decode_rle_to_indexed: its arguments and its result
    rle_data, rle_target, rle_ret,
    \* decode_rle_to_rgba: its palette and target arguments and its result
    rgba_palette, rgba_target, rgba_ret,
    \* parse_subtitle_data on the bytes of one SPU: the SPU, the position in the
    \* function, its locals, the packet it returns and the frame rendered from it
    spu_data, spu_pc, spu_loc, spu_ret, spu_frame,
    \* parse_subtitle_packet on the bytes of a .sub buffer: its arguments and
    \* how the call ended
    pes_data, pes_offset, pes_ret,
    \* the build of the library: whether integer overflow is checked, and
    \* whether the standard library leaves a Cursor at the end after a failed read
    build,
    \* DisplaySet::parse on the bytes of one display set: the bytes, the same
    \* display set without its damaged segment, and how the call ended
    ds_data, ds_sound, ds_ret,
    \* PgsParser::parse on the bytes of a .sup file made of two display sets with
    \* bytes put between them: the two display sets, the bytes between, and how
    \* the call ended
    sup_sets, sup_between, sup_ret,
    \* VobSubParser::load_from_data on the text of an .idx: the lines of the text
    idx_content,
    \* the deband filter: the deband_config of the VobSubParser, the RGBA image
    \* given to apply_deband with its width and height, the last call and the
    \* image returned
    deband_config, deb_rgba, deb_width, deb_height, deb_call, deb_ret,
    \* the loop of DisplaySet::parse step by step: the position of the reader,
    \* the display set so far, the segment handled last, the place in the loop
    cur_pos, cur_set, cur_seg, cur_pc,
    \* the loop of PgsParser::parse step by step: the buffer, the scan offset,
    \* the display sets pushed, the place in the loop
    scan_data, scan_offset, scan_sets, scan_pc,
    \* read_rle_code: the data, the nibble position and the code read
    rc_data, rc_pos, rc_ret,
    \* SubtitleRenderer (src/renderer.rs): the format, the two decoders, the
    \* last call and what it returned
    fac_format, fac_pgs, fac_vobsub, fac_call, fac_ret

pgsVars  == <<display_sets, timestamps_ms, indexed_cache, last_boundary_index,
              rgba_buffer, sup_input, pgs_call, pgs_ret, cache_epoch>>
histVars == <<rendered, hist>>
vobVars  == <<idx_data, sub_data, vs_timestamps_ms, packet_cache, idx_entries, sub_file,
              vob_call, vob_ret>>
bsVars   == <<bs_timestamps, bs_target, bs_ret>>
rleVars  == <<rle_data, rle_target, rle_ret, rgba_palette, rgba_target, rgba_ret>>
spuVars  == <<spu_data, spu_pc, spu_loc, spu_ret, spu_frame>>
pesVars  == <<pes_data, pes_offset, pes_ret>>
dsVars   == <<build, ds_data, ds_sound, ds_ret>>
supVars  == <<sup_sets, sup_between, sup_ret>>
byteVars == <<spuVars, pesVars, dsVars, supVars>>
idxVars  == <<idx_content>>
debVars  == <<deband_config, deb_rgba, deb_width, deb_height, deb_call, deb_ret>>
curVars  == <<cur_pos, cur_set, cur_seg, cur_pc>>
scanVars == <<scan_data, scan_offset, scan_sets, scan_pc>>
rcVars   == <<rc_data, rc_pos, rc_ret>>
facVars  == <<fac_format, fac_pgs, fac_vobsub, fac_call, fac_ret>>
stepVars == <<curVars, scanVars, rcVars, facVars>>
vobxVars == <<idxVars, debVars, stepVars>>
vars     == <<pgsVars, histVars, vobVars, bsVars, rleVars, byteVars, vobxVars>>

(***************************************************************************)
(* Generic helpers                                                         *)
(***************************************************************************)
None == <<>>
Some(x) == <<x>>
IsSome(o) == Len(o) = 1
Unwrap(o) == o[1]

Min(a, b) == IF a < b THEN a ELSE b

\* HashMap::insert
MapInsert(m, k, v) == [x \in (DOMAIN m) \cup {k} |-> IF x = k THEN v ELSE m[x]]
\* HashMap::new / HashMap::clear
EmptyMap == <<>>

\* f64 -> u32 `as` cast on the integral inputs of the model: negative values
\* saturate to 0 (values above u32::MAX are outside the model's range)
AsU32(x) == IF x < 0 THEN 0 ELSE x

(***************************************************************************)
(* utils.rs: binary_search_timestamp                                       *)
(***************************************************************************)
RECURSIVE BinarySearchLoop(_, _, _, _)
BinarySearchLoop(timestamps, target, low, high) ==
    IF low < high
    THEN LET mid == low + (high - low) \div 2
         IN  IF timestamps[mid + 1] <= target
             THEN BinarySearchLoop(timestamps, target, mid + 1, high)
             ELSE BinarySearchLoop(timestamps, target, low, mid)
    ELSE low

\* Mutant: the insertion point is returned, not the element before it.
BinarySearchInsertionPoint(timestamps, target) ==
    IF Len(timestamps) = 0
    THEN 0
    ELSE BinarySearchLoop(timestamps, target, 0, Len(timestamps))

binary_search_timestamp(timestamps, target) ==
    IF Len(timestamps) = 0
    THEN 0
    ELSE LET low == BinarySearchLoop(timestamps, target, 0, Len(timestamps))
         IN  IF low > 0 THEN low - 1 ELSE 0

(***************************************************************************)
(* pgs/rle.rs: decode_rle_to_indexed and apply_palette                     *)
(***************************************************************************)
\* data.get(pos).copied().unwrap_or(0)
GetOr0(data, pos) == IF pos < Len(data) THEN data[pos + 1] ELSE 0

\* target[idx..end].fill(value), and the scalar loop for short runs
Fill(target, idx, end, value) ==
    [k \in 1..Len(target) |-> IF k > idx /\ k <= end THEN value ELSE target[k]]

\* Mutant: the colour byte of a 14-bit run with colour is not consumed.
RleRunColourNotConsumed(data, pos, byte2) ==
    IF (byte2 \div 64) % 4 = 3
    THEN [count |-> (byte2 % 64) * 256 + GetOr0(data, pos), value |-> 0, pos |-> pos + 1]
    ELSE IF (byte2 \div 128) % 2 = 1
    THEN [count |-> byte2 % 64, value |-> GetOr0(data, pos), pos |-> pos + 1]
    ELSE IF (byte2 \div 64) % 2 = 1
    THEN [count |-> (byte2 % 64) * 256 + GetOr0(data, pos), value |-> 0, pos |-> pos + 1]
    ELSE [count |-> byte2 % 64, value |-> 0, pos |-> pos]

\* Mutant: the high six bits of a 14-bit length are dropped.
RleRunLowByteOnly(data, pos, byte2) ==
    IF (byte2 \div 64) % 4 = 3
    THEN [count |-> GetOr0(data, pos), value |-> GetOr0(data, pos + 1), pos |-> pos + 2]
    ELSE IF (byte2 \div 128) % 2 = 1
    THEN [count |-> byte2 % 64, value |-> GetOr0(data, pos), pos |-> pos + 1]
    ELSE IF (byte2 \div 64) % 2 = 1
    THEN [count |-> GetOr0(data, pos), value |-> 0, pos |-> pos + 1]
    ELSE [count |-> byte2 % 64, value |-> 0, pos |-> pos]

\* The run a control code stands for, byte2 # 0 read and pos just past it:
\* its length, its palette index and the position after the code.
RleRun(data, pos, byte2) ==
    IF (byte2 \div 64) % 4 = 3                            \* byte2 & 0xC0 == 0xC0
    THEN [count |-> (byte2 % 64) * 256 + GetOr0(data, pos),
          value |-> GetOr0(data, pos + 1),
          pos   |-> pos + 2]
    ELSE IF (byte2 \div 128) % 2 = 1                      \* byte2 & 0x80 != 0
    THEN [count |-> byte2 % 64,
          value |-> GetOr0(data, pos),
          pos   |-> pos + 1]
    ELSE IF (byte2 \div 64) % 2 = 1                       \* byte2 & 0x40 != 0
    THEN [count |-> (byte2 % 64) * 256 + GetOr0(data, pos),
          value |-> 0,
          pos   |-> pos + 1]
    ELSE [count |-> byte2 % 64, value |-> 0, pos |-> pos]

\* Mutant: a run is not clamped to the end of the target.
RunEndUnclamped(idx, count, target_len) == idx + count

\* let end = (idx + count).min(target_len);
RunEnd(idx, count, target_len) == Min(idx + count, target_len)

\* target[idx..end] is a range of the target (the slice index does not panic)
InTarget(target, idx, end) == idx <= end /\ end <= Len(target)

\* panicked: an index outside the target was used (the call panics there)
RECURSIVE RleIndexedLoop(_, _, _, _)
RleIndexedLoop(data, target, pos, idx) ==
    IF ~(pos < Len(data) /\ idx < Len(target))
    THEN [target |-> target, count |-> idx, panicked |-> FALSE]
    ELSE LET byte1 == data[pos + 1]
         IN  IF byte1 # 0
             THEN RleIndexedLoop(data, Fill(target, idx, idx + 1, byte1), pos + 1, idx + 1)
             ELSE IF pos + 1 >= Len(data)
             THEN [target |-> target, count |-> idx, panicked |-> FALSE]
             ELSE LET byte2 == data[pos + 2]
                  IN  IF byte2 = 0
                      THEN RleIndexedLoop(data, target, pos + 2, idx)
                      ELSE LET run == RleRun(data, pos + 2, byte2)
                               end == RunEnd(idx, run.count, Len(target))
                           IN  IF ~InTarget(target, idx, end)
                               THEN [target |-> target, count |-> idx, panicked |-> TRUE]
                               ELSE RleIndexedLoop(data, Fill(target, idx, end, run.value),
                                                   run.pos, end)

\* Returns the target as written and the number of decoded pixels.
decode_rle_to_indexed(data, target) == RleIndexedLoop(data, target, 0, 0)

\* if idx < palette_len { palette[idx] } else { 0 }
PaletteColour(palette, index) ==
    IF index < Len(palette) THEN palette[index + 1] ELSE <<0, 0, 0, 0>>

\* Mutant: transparent runs are written as 0, not as palette entry 0.
RgbaRunTransparentZero(data, palette, pos, byte2) ==
    LET run == RleRun(data, pos, byte2)
    IN  [count |-> run.count,
         color |-> IF (byte2 \div 128) % 2 = 1
                   THEN PaletteColour(palette, run.value)
                   ELSE <<0, 0, 0, 0>>,
         pos   |-> run.pos]

\* decode_rle_to_rgba, the run of a control code: its length, its colour and
\* the position after the code
RgbaRun(data, palette, pos, byte2) ==
    LET transparent == IF Len(palette) > 0 THEN palette[1] ELSE <<0, 0, 0, 0>>
    IN  IF (byte2 \div 64) % 4 = 3                        \* byte2 & 0xC0 == 0xC0
        THEN [count |-> (byte2 % 64) * 256 + GetOr0(data, pos),
              color |-> PaletteColour(palette, GetOr0(data, pos + 1)),
              pos   |-> pos + 2]
        ELSE IF (byte2 \div 128) % 2 = 1                  \* byte2 & 0x80 != 0
        THEN [count |-> byte2 % 64,
              color |-> PaletteColour(palette, GetOr0(data, pos)),
              pos   |-> pos + 1]
        ELSE IF (byte2 \div 64) % 2 = 1                   \* byte2 & 0x40 != 0
        THEN [count |-> (byte2 % 64) * 256 + GetOr0(data, pos),
              color |-> transparent,
              pos   |-> pos + 1]
        ELSE [count |-> byte2 % 64, color |-> transparent, pos |-> pos]

RECURSIVE RleRgbaLoop(_, _, _, _, _)
RleRgbaLoop(data, palette, target, pos, idx) ==
    IF ~(pos < Len(data) /\ idx < Len(target))
    THEN [target |-> target, count |-> idx, panicked |-> FALSE]
    ELSE LET byte1 == data[pos + 1]
         IN  IF byte1 # 0
             THEN RleRgbaLoop(data, palette,
                              Fill(target, idx, idx + 1, PaletteColour(palette, byte1)),
                              pos + 1, idx + 1)
             ELSE IF pos + 1 >= Len(data)
             THEN [target |-> target, count |-> idx, panicked |-> FALSE]
             ELSE LET byte2 == data[pos + 2]
                  IN  IF byte2 = 0
                      THEN RleRgbaLoop(data, palette, target, pos + 2, idx)
                      ELSE LET run == RgbaRun(data, palette, pos + 2, byte2)
                               end == RunEnd(idx, run.count, Len(target))
                           IN  IF ~InTarget(target, idx, end)
                               THEN [target |-> target, count |-> idx, panicked |-> TRUE]
                               ELSE RleRgbaLoop(data, palette,
                                                Fill(target, idx, end, run.color),
                                                run.pos, end)

\* Returns the target as written and the number of decoded pixels.
decode_rle_to_rgba(data, palette, target) == RleRgbaLoop(data, palette, target, 0, 0)

ZeroRgba == <<0, 0, 0, 0>>

\* palette: the Vec<u32> of a palette, element i at palette[i + 1]
apply_palette(indexed, palette, target) ==
    LET len == Min(Len(indexed), Len(target))
    IN  [k \in 1..Len(target) |->
            IF k <= len
            THEN IF indexed[k] < Len(palette) THEN palette[indexed[k] + 1] ELSE ZeroRgba
            ELSE target[k]]


(***************************************************************************)
(* pgs/segment.rs, pgs/composition.rs, pgs/object.rs                       *)
(***************************************************************************)
Normal == 0
AcquisitionPoint == 64
EpochStart == 128

is_epoch_start(comp) == comp.composition_state = EpochStart

\* Mutant: an acquisition point is not recognised.
AcquisitionPointIgnored(comp) == FALSE

\* CompositionState::AcquisitionPoint
is_acquisition_point(comp) == comp.composition_state = AcquisitionPoint

\* (self.sequence_flag & 0x80) != 0
is_first_in_sequence(obj) == (obj.sequence_flag \div 128) % 2 = 1

RECURSIVE ConcatData(_, _)
ConcatData(segments, k) ==
    IF k > Len(segments) THEN <<>> ELSE segments[k].data \o ConcatData(segments, k + 1)

\* AssembledObject::from_segments
from_segments(segments) ==
    IF Len(segments) = 0
    THEN None
    ELSE IF ~is_first_in_sequence(segments[1])
    THEN None
    ELSE Some([id      |-> segments[1].id,
               version |-> segments[1].version,
               width   |-> segments[1].width,
               height  |-> segments[1].height,
               data    |-> ConcatData(segments, 1)])

\* DisplaySet::pts_ms
pts_ms(ds) == ds.pts \div 90

(***************************************************************************)
(* pgs/parser.rs: boundary resolution and context replay                   *)
(***************************************************************************)
IsBoundarySet(ds) ==
    /\ IsSome(ds.composition)
    /\ \/ is_epoch_start(Unwrap(ds.composition))
       \/ is_acquisition_point(Unwrap(ds.composition))

\* for i in (0..=index).rev() { ... return i } 0
RECURSIVE BoundaryWalk(_, _)
BoundaryWalk(sets, i) ==
    IF IsBoundarySet(sets[i + 1]) THEN i
    ELSE IF i = 0 THEN 0
    ELSE BoundaryWalk(sets, i - 1)

find_boundary_index(sets, index) == BoundaryWalk(sets, index)

\* RenderContext::new
NewContext == [object_parts |-> EmptyMap, objects |-> EmptyMap,
               palettes |-> EmptyMap, windows |-> EmptyMap]

\* Mutant: a first-in-sequence fragment is appended to the fragments already
\* held for its id.
RECURSIVE ReplayObjectsNoReset(_, _, _)
ReplayObjectsNoReset(object_parts, objects, k) ==
    IF k > Len(objects) THEN object_parts
    ELSE LET obj == objects[k]
         IN  IF obj.id \in DOMAIN object_parts
             THEN ReplayObjectsNoReset(MapInsert(object_parts, obj.id,
                                                 Append(object_parts[obj.id], obj)),
                                       objects, k + 1)
             ELSE IF is_first_in_sequence(obj)
             THEN ReplayObjectsNoReset(MapInsert(object_parts, obj.id, <<obj>>),
                                       objects, k + 1)
             ELSE ReplayObjectsNoReset(object_parts, objects, k + 1)

\* for obj in &ds.objects { ... }
RECURSIVE ReplayObjects(_, _, _)
ReplayObjects(object_parts, objects, k) ==
    IF k > Len(objects) THEN object_parts
    ELSE LET obj == objects[k]
         IN  IF is_first_in_sequence(obj)
             THEN ReplayObjects(MapInsert(object_parts, obj.id, <<obj>>), objects, k + 1)
             ELSE IF obj.id \in DOMAIN object_parts
             THEN ReplayObjects(MapInsert(object_parts, obj.id,
                                          Append(object_parts[obj.id], obj)),
                                objects, k + 1)
             ELSE ReplayObjects(object_parts, objects, k + 1)

\* Mutant: the first palette stored under an id is kept.
RECURSIVE ReplayPalettesFirstWins(_, _, _)
ReplayPalettesFirstWins(palettes, defs, k) ==
    IF k > Len(defs) THEN palettes
    ELSE IF defs[k].id \in DOMAIN palettes
    THEN ReplayPalettesFirstWins(palettes, defs, k + 1)
    ELSE ReplayPalettesFirstWins(MapInsert(palettes, defs[k].id, defs[k]), defs, k + 1)

\* for palette in &ds.palettes { context.palettes.insert(palette.id, ...) }
RECURSIVE ReplayPalettes(_, _, _)
ReplayPalettes(palettes, defs, k) ==
    IF k > Len(defs) THEN palettes
    ELSE ReplayPalettes(MapInsert(palettes, defs[k].id, defs[k]), defs, k + 1)

\* for window in &wds.windows { context.windows.insert(window.id, *window) }
RECURSIVE ReplayWindowList(_, _, _)
ReplayWindowList(windows, defs, k) ==
    IF k > Len(defs) THEN windows
    ELSE ReplayWindowList(MapInsert(windows, defs[k].id, defs[k]), defs, k + 1)

\* for wds in &ds.windows { ... }
RECURSIVE ReplayWindows(_, _, _)
ReplayWindows(windows, segs, k) ==
    IF k > Len(segs) THEN windows
    ELSE ReplayWindows(ReplayWindowList(windows, segs[k].windows, 1), segs, k + 1)

\* for i in boundary_index..=target_index { ... }
RECURSIVE ReplaySets(_, _, _, _)
ReplaySets(context, sets, i, target_index) ==
    IF i > target_index THEN context
    ELSE LET ds == sets[i + 1]
         IN  ReplaySets([context EXCEPT
                            !.object_parts = ReplayObjects(@, ds.objects, 1),
                            !.palettes     = ReplayPalettes(@, ds.palettes, 1),
                            !.windows      = ReplayWindows(@, ds.windows, 1)],
                        sets, i + 1, target_index)

\* Assemble multi-part objects
AssembleObjects(object_parts) ==
    [id \in {i \in DOMAIN object_parts : IsSome(from_segments(object_parts[i]))} |->
        Unwrap(from_segments(object_parts[id]))]

build_context(sets, boundary_index, target_index) ==
    LET replayed == ReplaySets(NewContext, sets, boundary_index, target_index)
    IN  [replayed EXCEPT !.objects = AssembleObjects(replayed.object_parts)]

(***************************************************************************)
(* pgs/parser.rs: render_at_index                                          *)
(***************************************************************************)
Zeros(n) == [k \in 1..n |-> 0]

\* self.rgba_buffer.resize(pixel_count, 0) when it is shorter
GrowBuffer(buffer, pixel_count) ==
    IF Len(buffer) < pixel_count
    THEN buffer \o [k \in 1..(pixel_count - Len(buffer)) |-> ZeroRgba]
    ELSE buffer

\* self.rgba_buffer[..pixel_count].iter().flat_map(|&c| c.to_le_bytes()).collect()
RgbaBytes(buffer, pixel_count) ==
    [k \in 1..(4 * pixel_count) |-> buffer[((k - 1) \div 4) + 1][((k - 1) % 4) + 1]]

\* Decode RLE to indexed pixels: the DecodedBitmap put in the cache on a miss
DecodeBitmap(obj) ==
    [indexed |-> decode_rle_to_indexed(obj.data, Zeros(obj.width * obj.height)).target,
     width   |-> obj.width,
     height  |-> obj.height]

\* Mutant: the cache is kept when the boundary changes.
CacheKeptAcrossBoundary(cache, last_boundary, boundary_index) == cache

\* if self.last_boundary_index != Some(boundary_index) { self.indexed_cache.clear(); }
CacheForBoundary(cache, last_boundary, boundary_index) ==
    IF last_boundary # Some(boundary_index) THEN EmptyMap ELSE cache

\* Mutant: an empty composition-object list is rendered as an empty frame.
ScreenClearIgnored(composition) == FALSE

\* if composition.composition_objects.is_empty() { return None; }
IsScreenClear(composition) == Len(composition.composition_objects) = 0

\* Decode or get cached indexed pixels
CacheLookup(cache, obj) ==
    LET cache_key == <<obj.id, obj.version>>
    IN  IF cache_key \in DOMAIN cache
        THEN cache
        ELSE MapInsert(cache, cache_key, DecodeBitmap(obj))

\* for comp_obj in &composition.composition_objects { ... }
\* st: the cache, the scratch buffer, the compositions pushed so far and the
\* cache keys inserted by this call
RECURSIVE RenderObjects(_, _, _, _, _)
RenderObjects(composition_objects, k, context, palette, st) ==
    IF k > Len(composition_objects) THEN st
    ELSE LET comp_obj == composition_objects[k]
         IN  IF comp_obj.object_id \notin DOMAIN context.objects
             THEN RenderObjects(composition_objects, k + 1, context, palette, st)
             ELSE LET obj         == context.objects[comp_obj.object_id]
                      cache_key   == <<obj.id, obj.version>>
                      cache1      == CacheLookup(st.cache, obj)
                      decoded     == cache1[cache_key]
                      pixel_count == decoded.width * decoded.height
                      grown       == GrowBuffer(st.buffer, pixel_count)
                      applied     == apply_palette(decoded.indexed, palette.rgba,
                                                   SubSeq(grown, 1, pixel_count))
                      buffer1     == applied \o SubSeq(grown, pixel_count + 1, Len(grown))
                  IN  RenderObjects(composition_objects, k + 1, context, palette,
                        [cache        |-> cache1,
                         buffer       |-> buffer1,
                         compositions |-> Append(st.compositions,
                                            [x      |-> comp_obj.x,
                                             y      |-> comp_obj.y,
                                             width  |-> decoded.width,
                                             height |-> decoded.height,
                                             rgba   |-> RgbaBytes(buffer1, pixel_count)]),
                         inserted     |-> IF cache_key \in DOMAIN st.cache
                                          THEN st.inserted
                                          ELSE st.inserted \cup {cache_key}])

\* The call on a parser in state (sets, cache, last_boundary, buffer): the value
\* returned, the fields as the call leaves them, and the cache keys it inserted.
render_at_index(sets, cache, last_boundary, buffer, index) ==
    IF index >= Len(sets)
    THEN [ret |-> None, indexed_cache |-> cache, last_boundary_index |-> last_boundary,
          rgba_buffer |-> buffer, inserted |-> {}]
    ELSE LET boundary_index == find_boundary_index(sets, index)
             cache0 == CacheForBoundary(cache, last_boundary, boundary_index)
             ds     == sets[index + 1]
             none   == [ret |-> None, indexed_cache |-> cache0,
                        last_boundary_index |-> Some(boundary_index),
                        rgba_buffer |-> buffer, inserted |-> {}]
         IN  IF ~IsSome(ds.composition) THEN none
             ELSE LET composition == Unwrap(ds.composition)
                  IN  IF IsScreenClear(composition) THEN none
                      ELSE LET context == build_context(sets, boundary_index, index)
                           IN  IF composition.palette_id \notin DOMAIN context.palettes
                               THEN none
                               ELSE LET st == RenderObjects(
                                                composition.composition_objects, 1, context,
                                                context.palettes[composition.palette_id],
                                                [cache |-> cache0, buffer |-> buffer,
                                                 compositions |-> <<>>, inserted |-> {}])
                                    IN  [ret |-> Some([width  |-> composition.width,
                                                       height |-> composition.height,
                                                       compositions |-> st.compositions]),
                                         indexed_cache |-> st.cache,
                                         last_boundary_index |-> Some(boundary_index),
                                         rgba_buffer |-> st.buffer,
                                         inserted |-> st.inserted]

\* Mutant: a query before the resolved timestamp finds nothing.
PgsFindWithStartCheck(timestamps, time_ms) ==
    IF Len(timestamps) = 0
    THEN -1
    ELSE LET index == binary_search_timestamp(timestamps, AsU32(time_ms))
         IN  IF AsU32(time_ms) < timestamps[index + 1] THEN -1 ELSE index

\* PgsParser::find_index_at_timestamp
pgs_find_index_at_timestamp(timestamps, time_ms) ==
    IF Len(timestamps) = 0
    THEN -1
    ELSE binary_search_timestamp(timestamps, AsU32(time_ms))

(***************************************************************************)
(* PGS streams handed to parse.  A stream is given by the display sets      *)
(* DisplaySet::parse yields for it; palettes hold 256 entries as            *)
(* PaletteDefinitionSegment::parse builds them.                             *)
(***************************************************************************)
PALETTE_ENTRIES == 256

Red   == <<255, 0, 0, 255>>
Green == <<0, 255, 0, 255>>
Blue  == <<0, 0, 255, 128>>

\* entries: palette entry id -> colour; missing entries remain 0
Palette(id, version, entries) ==
    [id |-> id, version |-> version,
     rgba |-> [k \in 1..PALETTE_ENTRIES |->
                  IF (k - 1) \in DOMAIN entries THEN entries[k - 1] ELSE ZeroRgba]]

Ods(id, version, sequence_flag, width, height, data) ==
    [id |-> id, version |-> version, sequence_flag |-> sequence_flag,
     width |-> width, height |-> height, data |-> data]

CompObj(object_id, window_id, x, y) ==
    [object_id |-> object_id, window_id |-> window_id, x |-> x, y |-> y]

Pcs(state, palette_id, objs) ==
    [width |-> 1920, height |-> 1080, composition_state |-> state,
     palette_id |-> palette_id, composition_objects |-> objs]

Wds(id) == [windows |-> <<[id |-> id, x |-> 0, y |-> 0, width |-> 1920, height |-> 1080]>>]

\* a window segment that defines two windows, the second of half the height
WdsPair(id, other) ==
    [windows |-> << [id |-> id, x |-> 0, y |-> 540, width |-> 1920, height |-> 540],
                    [id |-> other, x |-> 0, y |-> 0, width |-> 1920, height |-> 540] >>]

DSet(composition, palettes, objects, windows) ==
    [pts |-> 0, dts |-> 0, composition |-> composition, palettes |-> palettes,
     objects |-> objects, windows |-> windows]

\* The display sets streams are made of.
SetPool ==
    << \* an epoch start: palette 0, object 1 (2x1, pixels 1 2), first fragment of
       \* object 2 (2x1); both objects composed
       DSet(Some(Pcs(EpochStart, 0, <<CompObj(1, 0, 100, 50), CompObj(2, 0, 200, 50)>>)),
            <<Palette(0, 0, (1 :> Red) @@ (2 :> Green))>>,
            <<Ods(1, 0, 192, 2, 1, <<1, 2>>), Ods(2, 0, 128, 2, 1, <<0, 130>>)>>,
            <<Wds(0)>>),
       \* a normal update: object 1 defined again with the same version (1x1,
       \* pixel 2), composed with an object 3 nobody defines
       DSet(Some(Pcs(Normal, 0, <<CompObj(3, 0, 7, 8), CompObj(1, 0, 10, 20)>>)),
            <<>>,
            <<Ods(1, 0, 192, 1, 1, <<2>>)>>,
            <<>>),
       \* a normal update: the continuation of object 2, palette 0 version 1,
       \* window 0 defined again and a window 1
       DSet(Some(Pcs(Normal, 0, <<CompObj(2, 0, 30, 40)>>)),
            <<Palette(0, 1, (1 :> Blue))>>,
            <<Ods(2, 0, 64, 0, 0, <<1>>)>>,
            <<WdsPair(0, 1)>>),
       \* an acquisition point: object 1 version 1 (1x2), palette 1; composes
       \* object 3 only
       DSet(Some(Pcs(AcquisitionPoint, 1, <<CompObj(3, 0, 1, 2)>>)),
            <<Palette(1, 0, (1 :> Green))>>,
            <<Ods(1, 1, 192, 1, 2, <<0, 2>>)>>,
            <<Wds(1)>>),
       \* a screen clear: a composition with no objects
       DSet(Some(Pcs(Normal, 0, <<>>)), <<>>, <<>>, <<>>),
       \* no composition segment: palette 1 only
       DSet(None, <<Palette(1, 0, (2 :> Red))>>, <<>>, <<>>) >>

\* The longest stream parsed.
MaxSets == 3

\* Display set k (0-based) of a stream has PTS 90000 * (k + 1) + 45.
PtsAt(k) == 90000 * (k + 1) + 45

Streams ==
    UNION {[1..n -> 1..Len(SetPool)] : n \in 0..MaxSets}

StreamSets(stream) ==
    [k \in 1..Len(stream) |-> [SetPool[stream[k]] EXCEPT !.pts = PtsAt(k - 1)]]

RenderIndices == 0..MaxSets
QueryTimes == {-1, 0, 999, 1000, 2500, 3000, 9000}

(***************************************************************************)
(* PgsParser: the state machine                                            *)
(***************************************************************************)
NoRenders == [i \in RenderIndices |-> None]

\* PgsParser::new, and the stream the host is going to load
PgsInit ==
    /\ sup_input \in Streams
    /\ display_sets = <<>>
    /\ timestamps_ms = <<>>
    /\ indexed_cache = EmptyMap
    /\ last_boundary_index = None
    /\ rgba_buffer = <<>>
    /\ pgs_call = [op |-> "new", arg |-> 0]
    /\ pgs_ret = 0
    /\ cache_epoch = EmptyMap

HistInit ==
    /\ rendered = NoRenders
    /\ hist = <<>>

\* PgsParser::parse, on the display sets the stream holds
Parse(sets) ==
    /\ display_sets' = sets
    /\ timestamps_ms' = [k \in 1..Len(sets) |-> pts_ms(sets[k])]
    /\ indexed_cache' = EmptyMap
    /\ last_boundary_index' = None
    /\ rgba_buffer' = <<>>
    /\ pgs_call' = [op |-> "parse", arg |-> 0]
    /\ pgs_ret' = Len(sets)
    /\ cache_epoch' = EmptyMap
    /\ UNCHANGED sup_input

\* PgsParser::render_at_index
RenderAtIndex(index) ==
    LET r == render_at_index(display_sets, indexed_cache, last_boundary_index,
                             rgba_buffer, index)
    IN  /\ indexed_cache' = r.indexed_cache
        /\ last_boundary_index' = r.last_boundary_index
        /\ rgba_buffer' = r.rgba_buffer
        /\ pgs_call' = [op |-> "render_at_index", arg |-> index]
        /\ pgs_ret' = r.ret
        /\ cache_epoch' = [k \in DOMAIN r.indexed_cache |->
                              IF k \in r.inserted
                              THEN Unwrap(r.last_boundary_index)
                              ELSE cache_epoch[k]]
        /\ UNCHANGED <<display_sets, timestamps_ms, sup_input>>

\* PgsParser::clear_cache
ClearCache ==
    /\ indexed_cache' = EmptyMap
    /\ last_boundary_index' = None
    /\ pgs_call' = [op |-> "clear_cache", arg |-> 0]
    /\ pgs_ret' = 0
    /\ cache_epoch' = EmptyMap
    /\ UNCHANGED <<display_sets, timestamps_ms, rgba_buffer, sup_input>>

\* PgsParser::find_index_at_timestamp
FindIndexAtTimestamp(time_ms) ==
    /\ pgs_call' = [op |-> "find_index_at_timestamp", arg |-> time_ms]
    /\ pgs_ret' = pgs_find_index_at_timestamp(timestamps_ms, time_ms)
    /\ UNCHANGED <<display_sets, timestamps_ms, indexed_cache, last_boundary_index,
                   rgba_buffer, cache_epoch, sup_input>>

\* The record of renders: a render under a newly recorded boundary, a parse and
\* a clear_cache start it afresh.
HistReset ==
    /\ rendered' = NoRenders
    /\ hist' = <<>>

HistRender(index) ==
    /\ rendered' = [(IF last_boundary_index' = last_boundary_index
                     THEN rendered ELSE NoRenders) EXCEPT ![index] = Some(pgs_ret')]
    /\ hist' = LET e == [index |-> index, ret |-> pgs_ret']
               IN  IF Len(hist) = 2 THEN <<hist[2], e>> ELSE Append(hist, e)

(***************************************************************************)
(* Specifications of the PgsParser                                          *)
(***************************************************************************)
PgsIdle ==
    /\ sup_input = <<>>
    /\ display_sets = <<>>
    /\ timestamps_ms = <<>>
    /\ indexed_cache = EmptyMap
    /\ last_boundary_index = None
    /\ rgba_buffer = <<>>
    /\ pgs_call = [op |-> "new", arg |-> 0]
    /\ pgs_ret = 0
    /\ cache_epoch = EmptyMap
    /\ rendered = NoRenders
    /\ hist = <<>>

VobIdle ==
    /\ idx_entries = <<>>
    /\ sub_file = <<>>
    /\ idx_data = None
    /\ sub_data = None
    /\ vs_timestamps_ms = <<>>
    /\ packet_cache = EmptyMap
    /\ vob_call = [op |-> "new", arg |-> 0]
    /\ vob_ret = 0

BsIdle ==
    /\ bs_timestamps = <<>>
    /\ bs_target = 0
    /\ bs_ret = None

RleIdle ==
    /\ rle_data = <<>>
    /\ rle_target = <<>>
    /\ rle_ret = None
    /\ rgba_palette = <<>>
    /\ rgba_target = <<>>
    /\ rgba_ret = None

SpuIdle ==
    /\ spu_data = <<>>
    /\ spu_pc = "idle"
    /\ spu_loc = <<>>
    /\ spu_ret = None
    /\ spu_frame = None

PesIdle ==
    /\ pes_data = <<>>
    /\ pes_offset = 0
    /\ pes_ret = None

DsIdle ==
    /\ build = [overflow_checks |-> FALSE, eof_on_failure |-> FALSE]
    /\ ds_data = <<>>
    /\ ds_sound = <<>>
    /\ ds_ret = None

SupIdle ==
    /\ sup_sets = <<>>
    /\ sup_between = <<>>
    /\ sup_ret = None

IdxIdle == idx_content = <<>>

\* DebandConfig::default (deband.rs:19-28)
DebandConfigDefault ==
    [enabled |-> TRUE, threshold |-> 64, range |-> 15, seed |-> 4919]

DebIdle ==
    /\ deband_config = DebandConfigDefault
    /\ deb_rgba = <<>>
    /\ deb_width = 0
    /\ deb_height = 0
    /\ deb_call = [op |-> "new", arg |-> 0]
    /\ deb_ret = None

CurIdle ==
    /\ cur_pos = 0
    /\ cur_set = <<>>
    /\ cur_seg = None
    /\ cur_pc = "idle"

ScanIdle ==
    /\ scan_data = <<>>
    /\ scan_offset = 0
    /\ scan_sets = <<>>
    /\ scan_pc = "idle"

RcIdle ==
    /\ rc_data = <<>>
    /\ rc_pos = <<0, 0>>
    /\ rc_ret = None

FacIdle ==
    /\ fac_format = None
    /\ fac_pgs = None
    /\ fac_vobsub = None
    /\ fac_call = [op |-> "new", arg |-> 0]
    /\ fac_ret = 0

StepIdle == CurIdle /\ ScanIdle /\ RcIdle /\ FacIdle

VobxIdle == IdxIdle /\ DebIdle /\ StepIdle

ByteIdle == SpuIdle /\ PesIdle /\ DsIdle /\ SupIdle /\ VobxIdle

PgsParse ==
    /\ Parse(StreamSets(sup_input))
    /\ UNCHANGED <<histVars, vobVars, bsVars, rleVars, byteVars, vobxVars>>

PgsRender ==
    /\ \E index \in RenderIndices : RenderAtIndex(index)
    /\ UNCHANGED <<histVars, vobVars, bsVars, rleVars, byteVars, vobxVars>>

PgsClear ==
    /\ ClearCache
    /\ UNCHANGED <<histVars, vobVars, bsVars, rleVars, byteVars, vobxVars>>

PgsFind ==
    /\ \E time_ms \in QueryTimes : FindIndexAtTimestamp(time_ms)
    /\ UNCHANGED <<histVars, vobVars, bsVars, rleVars, byteVars, vobxVars>>

InitPgs == PgsInit /\ HistInit /\ VobIdle /\ BsIdle /\ RleIdle /\ ByteIdle
NextPgs == PgsParse \/ PgsRender \/ PgsClear \/ PgsFind
SpecPgs == InitPgs /\ [][NextPgs]_vars

\* The same machine with the record of renders kept.
HistParse ==
    /\ Parse(StreamSets(sup_input))
    /\ HistReset
    /\ UNCHANGED <<vobVars, bsVars, rleVars, byteVars, vobxVars>>

HistRenderAt ==
    /\ \E index \in RenderIndices : RenderAtIndex(index) /\ HistRender(index)
    /\ UNCHANGED <<vobVars, bsVars, rleVars, byteVars, vobxVars>>

HistClear ==
    /\ ClearCache
    /\ HistReset
    /\ UNCHANGED <<vobVars, bsVars, rleVars, byteVars, vobxVars>>

InitHist == InitPgs
NextHist == HistParse \/ HistRenderAt \/ HistClear
SpecHist == InitHist /\ [][NextHist]_vars

(***************************************************************************)
(* Claims on the PgsParser                                                  *)
(***************************************************************************)
IsRender == pgs_call.op = "render_at_index"
ValidIndex(i) == i < Len(display_sets)

\* The greatest j <= i whose display set has a composition with state 0x80 or
\* 0x40, and 0 if there is none.
EpochBoundary(sets, i) ==
    LET S == {j \in 0..i : /\ IsSome(sets[j + 1].composition)
                           /\ Unwrap(sets[j + 1].composition).composition_state
                                 \in {128, 64}}
    IN  IF S = {} THEN 0 ELSE CHOOSE j \in S : \A k \in S : k <= j

\* The compositions of a frame computed without any cache: every composition
\* object whose id is in the context, in order, its object decoded from the
\* assembled RLE data and the palette applied.
RECURSIVE UncachedCompositions(_, _, _, _)
UncachedCompositions(composition_objects, k, context, palette) ==
    IF k > Len(composition_objects) THEN <<>>
    ELSE LET comp_obj == composition_objects[k]
             rest == UncachedCompositions(composition_objects, k + 1, context, palette)
         IN  IF comp_obj.object_id \notin DOMAIN context.objects
             THEN rest
             ELSE LET obj == context.objects[comp_obj.object_id]
                      n == obj.width * obj.height
                      indexed == decode_rle_to_indexed(obj.data, Zeros(n)).target
                      colours == [p \in 1..n |->
                                    IF indexed[p] < Len(palette.rgba)
                                    THEN palette.rgba[indexed[p] + 1] ELSE ZeroRgba]
                  IN  <<[x |-> comp_obj.x, y |-> comp_obj.y,
                         width |-> obj.width, height |-> obj.height,
                         rgba |-> RgbaBytes(colours, n)]>> \o rest

\* The frame of index i computed from display sets boundary(i)..=i alone.
UncachedFrame(sets, i) ==
    IF i >= Len(sets) THEN None
    ELSE IF ~IsSome(sets[i + 1].composition) THEN None
    ELSE LET composition == Unwrap(sets[i + 1].composition)
             context == build_context(sets, EpochBoundary(sets, i), i)
         IN  IF composition.composition_objects = <<>> THEN None
             ELSE IF composition.palette_id \notin DOMAIN context.palettes THEN None
             ELSE Some([width |-> composition.width, height |-> composition.height,
                        compositions |->
                            UncachedCompositions(composition.composition_objects, 1, context,
                                                 context.palettes[composition.palette_id])])

\* C1: whatever renders and cache clears came before, the frame render_at_index(i)
\* returns is the frame computed with no cache from display sets boundary(i)..=i.
C1_CacheNeverChangesFrame ==
    IsRender => pgs_ret = UncachedFrame(display_sets, pgs_call.arg)

\* C2, first half: a render of an index already rendered since the recorded
\* boundary last changed returns that same frame.
C2_SameEpochStep ==
    (/\ pgs_call'.op = "render_at_index"
     /\ last_boundary_index' = last_boundary_index
     /\ IsSome(rendered[pgs_call'.arg]))
        => pgs_ret' = Unwrap(rendered[pgs_call'.arg])

\* C2, second half: render(i), render(j), render(i) in a row, j in another epoch
\* than i, returns the same frame on the two renders of i.
C2_AcrossEpochStep ==
    (/\ pgs_call'.op = "render_at_index"
     /\ Len(hist) = 2
     /\ hist[1].index = pgs_call'.arg
     /\ ValidIndex(hist[1].index) /\ ValidIndex(hist[2].index)
     /\ EpochBoundary(display_sets, hist[1].index)
            # EpochBoundary(display_sets, hist[2].index))
        => pgs_ret' = hist[1].ret

\* C2: rendering the same index twice with only renders of the same epoch in
\* between gives identical frames, and so does render(i), render(j), render(i)
\* across an epoch boundary.
C2_RerenderIdentical == [][C2_SameEpochStep /\ C2_AcrossEpochStep]_vars

\* The first half of C2 alone.
C2_SameEpochIdentical == [][C2_SameEpochStep]_vars

\* C3: a render that resolves a boundary other than the recorded one records it
\* and leaves in the cache only bitmaps it decoded itself; and every cache entry
\* was decoded while the recorded boundary was in effect.
C3_FreshAfterBoundaryChange ==
    LET i == pgs_call'.arg
        b == EpochBoundary(display_sets, i)
        context == build_context(display_sets, b, i)
    IN  (/\ pgs_call'.op = "render_at_index"
         /\ ValidIndex(i)
         /\ last_boundary_index # Some(b))
            => /\ last_boundary_index' = Some(b)
               /\ \A key \in DOMAIN indexed_cache' :
                    \E id \in DOMAIN context.objects :
                        /\ key = <<context.objects[id].id, context.objects[id].version>>
                        /\ indexed_cache'[key] = DecodeBitmap(context.objects[id])

C3_EntriesOfRecordedBoundary ==
    \A key \in DOMAIN indexed_cache :
        /\ IsSome(last_boundary_index)
        /\ cache_epoch[key] = Unwrap(last_boundary_index)

C3_CacheInvalidatedOnBoundaryChange ==
    [][C3_FreshAfterBoundaryChange]_vars /\ []C3_EntriesOfRecordedBoundary

\* Two renders in a row, each leaving bitmaps in the cache, the second under
\* another boundary than the first.
C3_Witness ==
    /\ IsRender
    /\ Len(hist) = 2
    /\ ValidIndex(hist[1].index) /\ ValidIndex(hist[2].index)
    /\ EpochBoundary(display_sets, hist[1].index) # EpochBoundary(display_sets, hist[2].index)
    /\ IsSome(hist[1].ret) /\ Unwrap(hist[1].ret).compositions # <<>>
    /\ indexed_cache # EmptyMap

\* C6: no frame exactly when the index is invalid, the display set has no
\* composition, the composition has no objects, or no display set of
\* boundary(i)..=i defines the palette the composition names.
NoFrameCase(sets, i) ==
    \/ i >= Len(sets)
    \/ ~IsSome(sets[i + 1].composition)
    \/ Unwrap(sets[i + 1].composition).composition_objects = <<>>
    \/ ~ \E j \in EpochBoundary(sets, i)..i :
            \E p \in 1..Len(sets[j + 1].palettes) :
                sets[j + 1].palettes[p].id = Unwrap(sets[i + 1].composition).palette_id

C6_NoFrameExactlyWhen ==
    IsRender => (pgs_ret = None <=> NoFrameCase(display_sets, pgs_call.arg))

\* A frame returned although none of the objects it composes is defined.
C6_Witness ==
    /\ IsRender
    /\ IsSome(pgs_ret)
    /\ Unwrap(pgs_ret).compositions = <<>>

\* C7: a frame carries the composition's screen size and, in the order of the
\* composition segment, one composition per object present in the context, at
\* the composition object's (x, y) with the object's own width and height.
Geometry(compositions) ==
    [k \in 1..Len(compositions) |->
        [x |-> compositions[k].x, y |-> compositions[k].y,
         width |-> compositions[k].width, height |-> compositions[k].height]]

C7_FrameGeometry ==
    (IsRender /\ IsSome(pgs_ret)) =>
        LET composition == Unwrap(display_sets[pgs_call.arg + 1].composition)
            expected == Unwrap(UncachedFrame(display_sets, pgs_call.arg))
        IN  /\ Unwrap(pgs_ret).width = composition.width
            /\ Unwrap(pgs_ret).height = composition.height
            /\ Geometry(Unwrap(pgs_ret).compositions) = Geometry(expected.compositions)

\* C8: the boundary resolved for index i is the greatest j <= i with an
\* EpochStart or AcquisitionPoint composition, 0 if there is none.
C8_BoundaryIsLastEpochOrAcquisition ==
    (IsRender /\ ValidIndex(pgs_call.arg)) =>
        last_boundary_index = Some(EpochBoundary(display_sets, pgs_call.arg))

\* An EpochStart at index 0, an AcquisitionPoint at index 1, index 2 rendered.
C8_Witness ==
    /\ IsRender
    /\ pgs_call.arg = 2
    /\ Len(display_sets) = 3
    /\ IsSome(display_sets[1].composition)
    /\ Unwrap(display_sets[1].composition).composition_state = 128
    /\ IsSome(display_sets[2].composition)
    /\ Unwrap(display_sets[2].composition).composition_state = 64
    /\ ~IsBoundarySet(display_sets[3])
    /\ last_boundary_index = Some(1)

\* C9: -1 exactly when no display set is loaded; otherwise the result of the
\* binary search, the greatest index whose timestamp is <= t, or 0.
GreatestAtMost(T, t) ==
    LET S == {i \in 0..(Len(T) - 1) : T[i + 1] <= t}
    IN  IF S = {} THEN 0 ELSE CHOOSE i \in S : \A k \in S : k <= i

C9_PgsSeekIsBinarySearch ==
    pgs_call.op = "find_index_at_timestamp" =>
        /\ pgs_ret = -1 <=> Len(display_sets) = 0
        /\ Len(display_sets) > 0 =>
            /\ pgs_ret = binary_search_timestamp(timestamps_ms, AsU32(pgs_call.arg))
            /\ pgs_ret = GreatestAtMost(timestamps_ms, AsU32(pgs_call.arg))

\* A query before the first timestamp of a loaded stream answers 0.
C9_Witness ==
    /\ pgs_call.op = "find_index_at_timestamp"
    /\ Len(display_sets) > 1
    /\ AsU32(pgs_call.arg) < timestamps_ms[1]
    /\ pgs_ret = 0

(***************************************************************************)
(* binary_search_timestamp on its own                                      *)
(***************************************************************************)
\* The longest timestamp array searched.
MaxTimestamps == 4

TimestampValues == {0, 1000, 2000, 3000}
SearchTargets == {0, 500, 1000, 1500, 2000, 2999, 3000, 4500}

TimestampArrays == UNION {[1..n -> TimestampValues] : n \in 0..MaxTimestamps}

BsInit ==
    /\ bs_timestamps \in TimestampArrays
    /\ bs_target = 0
    /\ bs_ret = None

\* a call binary_search_timestamp(&timestamps, target)
BinarySearch(target) ==
    /\ bs_target' = target
    /\ bs_ret' = Some(binary_search_timestamp(bs_timestamps, target))
    /\ UNCHANGED bs_timestamps

BsSearch ==
    /\ \E target \in SearchTargets : BinarySearch(target)
    /\ UNCHANGED <<pgsVars, histVars, vobVars, rleVars, byteVars, vobxVars>>

InitBs == PgsIdle /\ VobIdle /\ BsInit /\ RleIdle /\ ByteIdle
NextBs == BsSearch
SpecBs == InitBs /\ [][NextBs]_vars

IsSorted(T) == \A k \in 1..(Len(T) - 1) : T[k] <= T[k + 1]

\* C5: on a sorted array the search returns the greatest index whose timestamp
\* is <= the query, and 0 when the array is empty or every element is greater.
C5_BinarySearchGreatestAtMost ==
    (IsSome(bs_ret) /\ IsSorted(bs_timestamps)) =>
        LET S == {i \in 0..(Len(bs_timestamps) - 1) : bs_timestamps[i + 1] <= bs_target}
        IN  /\ S # {} => /\ Unwrap(bs_ret) \in S
                         /\ \A i \in S : i <= Unwrap(bs_ret)
            /\ S = {} => Unwrap(bs_ret) = 0

\* A sorted array with a repeated timestamp, searched for that timestamp: the
\* last of the equal elements is found.
C5_Witness ==
    /\ IsSome(bs_ret)
    /\ IsSorted(bs_timestamps)
    /\ Len(bs_timestamps) = MaxTimestamps
    /\ bs_timestamps[2] = bs_target
    /\ bs_timestamps[3] = bs_target
    /\ bs_timestamps[4] > bs_target
    /\ Unwrap(bs_ret) = 2

(***************************************************************************)
(* decode_rle_to_indexed on its own                                        *)
(***************************************************************************)
\* The longest RLE input decoded.
MaxRleLen == 5

\* 0x00, a literal that is also a short length, and a code byte for each of
\* the top-bit patterns 01 (0x41), 10 (0x82) and 11 (0xC1)
RleBytes == {0, 2, 65, 130, 193}
\* inputs with a zero-length run: 00 C0 00 05 and 00 40 00 05
RleSamples == {<<0, 192, 0, 5>>, <<0, 64, 0, 5>>}
RleInputs == UNION {[1..n -> RleBytes] : n \in 0..MaxRleLen} \cup RleSamples

\* targets as the caller hands them over: every byte 0, or every byte 9
TargetLens == {0, 3, 300}
TargetFills == {0, 9}
RleTargets == {[k \in 1..n |-> fill] : n \in TargetLens, fill \in TargetFills}

RleInit ==
    /\ rle_data \in RleInputs
    /\ rle_target = <<>>
    /\ rle_ret = None
    /\ rgba_palette = <<>>
    /\ rgba_target = <<>>
    /\ rgba_ret = None

\* a call decode_rle_to_indexed(&data, &mut target)
DecodeRleToIndexed(target) ==
    /\ rle_target' = target
    /\ rle_ret' = Some(decode_rle_to_indexed(rle_data, target))
    /\ UNCHANGED <<rle_data, rgba_palette, rgba_target, rgba_ret>>

RleDecode ==
    /\ \E target \in RleTargets : DecodeRleToIndexed(target)
    /\ UNCHANGED <<pgsVars, histVars, vobVars, bsVars, byteVars, vobxVars>>

InitRle == PgsIdle /\ VobIdle /\ BsIdle /\ RleInit /\ ByteIdle
NextRle == RleDecode
SpecRle == InitRle /\ [][NextRle]_vars

\* The PGS RLE table read as a grammar.  A code is complete when all its bytes
\* are in the data; CodeLen is the number of bytes of the code at position p
\* (1-based), CodePixels the pixels it stands for.
Run(n, colour) == [k \in 1..n |-> colour]

CodeLen(data, p) ==
    IF data[p] # 0 THEN 1
    ELSE IF p + 1 > Len(data) THEN 2
    ELSE CASE data[p + 1] \div 64 = 0 -> 2
           [] data[p + 1] \div 64 = 1 -> 3
           [] data[p + 1] \div 64 = 2 -> 3
           [] data[p + 1] \div 64 = 3 -> 4

CodePixels(data, p) ==
    IF data[p] # 0 THEN <<data[p]>>
    ELSE LET L == data[p + 1] % 64
         IN  CASE data[p + 1] \div 64 = 0 -> Run(L, 0)
               [] data[p + 1] \div 64 = 1 -> Run(L * 256 + data[p + 2], 0)
               [] data[p + 1] \div 64 = 2 -> Run(L, data[p + 2])
               [] data[p + 1] \div 64 = 3 -> Run(L * 256 + data[p + 2], data[p + 3])

RECURSIVE WellFormedRle(_, _)
WellFormedRle(data, p) ==
    \/ p > Len(data)
    \/ /\ p + CodeLen(data, p) - 1 <= Len(data)
       /\ WellFormedRle(data, p + CodeLen(data, p))

RECURSIVE RlePixels(_, _)
RlePixels(data, p) ==
    IF p > Len(data) THEN <<>>
    ELSE CodePixels(data, p) \o RlePixels(data, p + CodeLen(data, p))

\* C10: on data made of complete codes the decoder writes, from the start of
\* the target, the pixels the RLE table gives for the codes in turn (as many as
\* the target holds), leaves the rest of the target alone and returns the
\* number of pixels written.
C10_DecodesPerRleTable ==
    (IsSome(rle_ret) /\ WellFormedRle(rle_data, 1)) =>
        LET pixels  == RlePixels(rle_data, 1)
            written == Min(Len(pixels), Len(rle_target))
            out     == Unwrap(rle_ret)
        IN  /\ out.count = written
            /\ Len(out.target) = Len(rle_target)
            /\ \A k \in 1..Len(rle_target) :
                  out.target[k] = IF k <= written THEN pixels[k] ELSE rle_target[k]

\* 00 C1 02 82 02 decoded into a target of 9s: 258 pixels of colour 130, then
\* the literal 2.
C10_Witness ==
    /\ IsSome(rle_ret)
    /\ rle_data = <<0, 193, 2, 130, 2>>
    /\ Len(rle_target) = 300
    /\ rle_target[1] = 9
    /\ Unwrap(rle_ret).count = 259
    /\ Unwrap(rle_ret).target[258] = 130
    /\ Unwrap(rle_ret).target[259] = 2
    /\ Unwrap(rle_ret).target[260] = 9

(***************************************************************************)
(* vobsub/sub_parser.rs and vobsub/vobsub_parser.rs                        *)
(*                                                                         *)
(* A .sub file is held sector by sector: element o + 1 is what lies at     *)
(* file offset o, either a pack (start code 00 00 01 BA and the subtitle   *)
(* it carries) or filler without a start code.  A pack is given by what    *)
(* the control sequence of its subtitle says: the PTS in milliseconds, the *)
(* delay of its Stop-display command if it has one, and the display area.  *)
(* The .idx text is held as its "timestamp:" entries in file order.        *)
(***************************************************************************)
MAX_LAST_DURATION_MS == 5000

Pack(pts, stop_delay, width, height) ==
    [pts |-> pts, stop_delay |-> stop_delay, width |-> width, height |-> height]

\* parse_subtitle_data: duration = (delay * 1024) / 90 at the Stop-display
\* command, and duration_ms: if duration > 0 { duration } else { 5000 }
parse_subtitle_data(pack) ==
    LET duration == IF IsSome(pack.stop_delay)
                    THEN (Unwrap(pack.stop_delay) * 1024) \div 90
                    ELSE 0
    IN  [timestamp_ms |-> pack.pts,
         duration_ms  |-> IF duration > 0 THEN duration ELSE 5000,
         width        |-> pack.width,
         height       |-> pack.height]

\* parse_subtitle_packet: scan forward from start_offset to the next start
\* code and parse the subtitle found there
RECURSIVE parse_subtitle_packet(_, _)
parse_subtitle_packet(data, start_offset) ==
    IF start_offset >= Len(data) THEN None
    ELSE IF IsSome(data[start_offset + 1])
    THEN Some(parse_subtitle_data(Unwrap(data[start_offset + 1])))
    ELSE parse_subtitle_packet(data, start_offset + 1)

\* u32::saturating_add; every sum of the model is below u32::MAX, where it is
\* the plain sum
saturating_add(a, b) == a + b

\* load_from_sub_only, the scan: a timestamp for every start code whose
\* subtitle parses and has a display area
RECURSIVE ScanStartCodes(_, _)
ScanStartCodes(sub, offset) ==
    IF offset >= Len(sub) THEN <<>>
    ELSE LET packet == parse_subtitle_packet(sub, offset)
             rest   == ScanStartCodes(sub, offset + 1)
         IN  IF /\ IsSome(sub[offset + 1])
                /\ IsSome(packet)
                /\ Unwrap(packet).width > 0
                /\ Unwrap(packet).height > 0
             THEN <<[timestamp_ms  |-> Unwrap(packet).timestamp_ms,
                     file_position |-> offset]>> \o rest
             ELSE rest

\* timestamps.sort_by_key(|t| t.timestamp_ms), a stable sort
InsertByKey(sorted, t) ==
    LET n == Cardinality({k \in 1..Len(sorted) : sorted[k].timestamp_ms <= t.timestamp_ms})
    IN  SubSeq(sorted, 1, n) \o <<t>> \o SubSeq(sorted, n + 1, Len(sorted))

RECURSIVE sort_by_key(_)
sort_by_key(timestamps) ==
    IF Len(timestamps) = 0 THEN <<>>
    ELSE InsertByKey(sort_by_key(SubSeq(timestamps, 1, Len(timestamps) - 1)),
                     timestamps[Len(timestamps)])

\* timestamps.iter().map(|t| t.timestamp_ms).collect()
TimestampsMs(timestamps) == [k \in 1..Len(timestamps) |-> timestamps[k].timestamp_ms]

\* get_or_parse_packet with the cache emptied before the packet parsed is put
\* into it
GetOrParsePacketEvicting(idx, sub, cache, index) ==
    IF ~IsSome(idx) \/ ~IsSome(sub)
    THEN [ret |-> None, packet_cache |-> cache]
    ELSE IF index >= Len(Unwrap(idx).timestamps)
    THEN [ret |-> None, packet_cache |-> cache]
    ELSE IF index \in DOMAIN cache
    THEN [ret |-> cache[index], packet_cache |-> cache]
    ELSE LET packet == parse_subtitle_packet(
                           Unwrap(sub), Unwrap(idx).timestamps[index + 1].file_position)
         IN  [ret |-> packet, packet_cache |-> MapInsert(EmptyMap, index, packet)]

\* VobSubParser::get_or_parse_packet: the packet and the cache as left
get_or_parse_packet(idx, sub, cache, index) ==
    IF ~IsSome(idx) \/ ~IsSome(sub)
    THEN [ret |-> None, packet_cache |-> cache]
    ELSE IF index >= Len(Unwrap(idx).timestamps)
    THEN [ret |-> None, packet_cache |-> cache]
    ELSE IF index \in DOMAIN cache
    THEN [ret |-> cache[index], packet_cache |-> cache]
    ELSE LET packet == parse_subtitle_packet(
                           Unwrap(sub), Unwrap(idx).timestamps[index + 1].file_position)
         IN  [ret |-> packet, packet_cache |-> MapInsert(cache, index, packet)]

\* Mutant: the explicit duration of the packet is not looked at.
CalculateEndTimeNoDuration(idx, sub, timestamps, cache, index, start_time) ==
    LET got == get_or_parse_packet(idx, sub, cache, index)
    IN  [ret |-> IF index + 1 < Len(timestamps)
                 THEN timestamps[index + 2]
                 ELSE saturating_add(start_time, MAX_LAST_DURATION_MS),
         packet_cache |-> got.packet_cache]

\* VobSubParser::calculate_end_time: the end time and the cache as left
calculate_end_time(idx, sub, timestamps, cache, index, start_time) ==
    LET got == get_or_parse_packet(idx, sub, cache, index)
        explicit_duration ==
            IF /\ IsSome(got.ret)
               /\ Unwrap(got.ret).duration_ms > 0
               /\ Unwrap(got.ret).duration_ms # 5000
            THEN Some(Unwrap(got.ret).duration_ms)
            ELSE None
        end_time ==
            IF index + 1 < Len(timestamps)
            THEN LET next_start == timestamps[index + 2]
                 IN  IF IsSome(explicit_duration)
                     THEN Min(saturating_add(start_time, Unwrap(explicit_duration)),
                              next_start)
                     ELSE next_start
            ELSE IF IsSome(explicit_duration)
                 THEN saturating_add(start_time, Unwrap(explicit_duration))
                 ELSE saturating_add(start_time, MAX_LAST_DURATION_MS)
    IN  [ret |-> end_time, packet_cache |-> got.packet_cache]

\* VobSubParser::find_index_at_timestamp: the index and the cache as left
vob_find_index_at_timestamp(idx, sub, timestamps, cache, time_ms) ==
    IF Len(timestamps) = 0
    THEN [ret |-> -1, packet_cache |-> cache]
    ELSE LET time_ms_u32 == AsU32(time_ms)
             index       == binary_search_timestamp(timestamps, time_ms_u32)
             start_time  == timestamps[index + 1]
         IN  IF time_ms_u32 < start_time
             THEN [ret |-> -1, packet_cache |-> cache]
             ELSE LET end == calculate_end_time(idx, sub, timestamps, cache,
                                                index, start_time)
                  IN  [ret |-> IF time_ms_u32 < end.ret THEN index ELSE -1,
                       packet_cache |-> end.packet_cache]

(***************************************************************************)
(* VobSubParser: the files loaded and the state machine                    *)
(***************************************************************************)
\* The most "timestamp:" entries an .idx holds.
MaxEntries == 3

IdxTimes == {1000, 1500, 10000}
FilePositions == {0, 3}
IdxFiles ==
    UNION {[1..n -> [timestamp_ms : IdxTimes, file_position : FilePositions]] :
              n \in 0..MaxEntries}

\* Stop-display delays 88, 800 and 440 give 1001, 9102 and 5006 ms; a delay of
\* 0 and a missing Stop-display command give the default 5000 ms.
SubFiles ==
    { << Some(Pack(1000, Some(88), 720, 480)),
         Some(Pack(1500, None, 720, 480)),
         Some(Pack(10000, Some(800), 720, 480)) >>,
      << None,
         Some(Pack(10000, Some(0), 720, 480)),
         Some(Pack(1000, Some(440), 720, 480)),
         Some(Pack(1500, Some(88), 0, 0)) >> }

VobQueryTimes == {-1, 999, 1000, 1499, 2000, 2001, 6000, 9999, 10000, 14999, 15000}

\* VobSubParser::new, and the files the host is going to load
VobInit ==
    /\ idx_entries \in IdxFiles
    /\ sub_file \in SubFiles
    /\ idx_data = None
    /\ sub_data = None
    /\ vs_timestamps_ms = <<>>
    /\ packet_cache = EmptyMap
    /\ vob_call = [op |-> "new", arg |-> 0]
    /\ vob_ret = 0

\* VobSubParser::load_from_data: dispose, then the .idx entries as parse_idx
\* leaves them (in file order) and a copy of the .sub
LoadFromData ==
    /\ idx_data' = Some([timestamps |-> idx_entries])
    /\ sub_data' = Some(sub_file)
    /\ vs_timestamps_ms' = TimestampsMs(idx_entries)
    /\ packet_cache' = EmptyMap
    /\ vob_call' = [op |-> "load_from_data", arg |-> 0]
    /\ vob_ret' = 0
    /\ UNCHANGED <<idx_entries, sub_file>>

\* load_from_sub_only with the packet cache kept
LoadFromSubOnlyKeepingCache ==
    LET timestamps == sort_by_key(ScanStartCodes(sub_file, 0))
    IN  /\ idx_data' = Some([timestamps |-> timestamps])
        /\ sub_data' = Some(sub_file)
        /\ vs_timestamps_ms' = TimestampsMs(timestamps)
        /\ vob_call' = [op |-> "load_from_sub_only", arg |-> 0]
        /\ vob_ret' = 0
        /\ UNCHANGED <<packet_cache, idx_entries, sub_file>>

\* VobSubParser::load_from_sub_only
LoadFromSubOnly ==
    LET timestamps == sort_by_key(ScanStartCodes(sub_file, 0))
    IN  /\ idx_data' = Some([timestamps |-> timestamps])
        /\ sub_data' = Some(sub_file)
        /\ vs_timestamps_ms' = TimestampsMs(timestamps)
        /\ packet_cache' = EmptyMap
        /\ vob_call' = [op |-> "load_from_sub_only", arg |-> 0]
        /\ vob_ret' = 0
        /\ UNCHANGED <<idx_entries, sub_file>>

\* VobSubParser::dispose
Dispose ==
    /\ idx_data' = None
    /\ sub_data' = None
    /\ vs_timestamps_ms' = <<>>
    /\ packet_cache' = EmptyMap
    /\ vob_call' = [op |-> "dispose", arg |-> 0]
    /\ vob_ret' = 0
    /\ UNCHANGED <<idx_entries, sub_file>>

\* VobSubParser::find_index_at_timestamp
VobFindIndexAtTimestamp(time_ms) ==
    LET r == vob_find_index_at_timestamp(idx_data, sub_data, vs_timestamps_ms,
                                         packet_cache, time_ms)
    IN  /\ packet_cache' = r.packet_cache
        /\ vob_call' = [op |-> "find_index_at_timestamp", arg |-> time_ms]
        /\ vob_ret' = r.ret
        /\ UNCHANGED <<idx_data, sub_data, vs_timestamps_ms, idx_entries, sub_file>>

\* VobSubParser::clear_cache
VobClearCache ==
    /\ packet_cache' = EmptyMap
    /\ vob_call' = [op |-> "clear_cache", arg |-> 0]
    /\ vob_ret' = 0
    /\ UNCHANGED <<idx_data, sub_data, vs_timestamps_ms, idx_entries, sub_file>>

VobLoadData ==
    /\ LoadFromData
    /\ UNCHANGED <<pgsVars, histVars, bsVars, rleVars, byteVars, vobxVars>>

VobLoadSubOnly ==
    /\ LoadFromSubOnly
    /\ UNCHANGED <<pgsVars, histVars, bsVars, rleVars, byteVars, vobxVars>>

VobDispose ==
    /\ Dispose
    /\ UNCHANGED <<pgsVars, histVars, bsVars, rleVars, byteVars, vobxVars>>

VobFind ==
    /\ \E time_ms \in VobQueryTimes : VobFindIndexAtTimestamp(time_ms)
    /\ UNCHANGED <<pgsVars, histVars, bsVars, rleVars, byteVars, vobxVars>>

VobClear ==
    /\ VobClearCache
    /\ UNCHANGED <<pgsVars, histVars, bsVars, rleVars, byteVars, vobxVars>>

InitVob == PgsIdle /\ VobInit /\ BsIdle /\ RleIdle /\ ByteIdle
NextVob == VobLoadData \/ VobLoadSubOnly \/ VobDispose \/ VobFind \/ VobClear
SpecVob == InitVob /\ [][NextVob]_vars

(***************************************************************************)
(* Claim on the VobSubParser                                               *)
(***************************************************************************)
\* The explicit duration of packet i: the duration_ms of the packet parsed at
\* the file position of entry i, if it is > 0 and not 5000.
ExplicitDuration(i) ==
    LET packet == parse_subtitle_packet(Unwrap(sub_data),
                                        Unwrap(idx_data).timestamps[i + 1].file_position)
    IN  IF /\ IsSome(packet)
           /\ Unwrap(packet).duration_ms > 0
           /\ Unwrap(packet).duration_ms # 5000
        THEN Some(Unwrap(packet).duration_ms)
        ELSE None

VisibleEnd(T, i) ==
    LET d == ExplicitDuration(i)
    IN  IF i + 1 < Len(T)
        THEN IF IsSome(d) THEN Min(T[i + 2], T[i + 1] + Unwrap(d)) ELSE T[i + 2]
        ELSE T[i + 1] + (IF IsSome(d) THEN Unwrap(d) ELSE 5000)

C11_ZeroRunThenLiteral ==
    (IsSome(rle_ret) /\ rle_data = <<0, 192, 0, 5>> /\ Len(rle_target) > 0) =>
        /\ Unwrap(rle_ret).count = 1
        /\ Unwrap(rle_ret).target[1] = 5

\* C11 as amended: 00 C0 00 05 is one code, a run of length 0 of colour 5; it
\* writes nothing and the count is 0.  It is 00 40 00 05 that is a transparent
\* run of length 0 followed by the literal 5.
C11_ZeroRunOfColour ==
    (IsSome(rle_ret) /\ Len(rle_target) > 0) =>
        /\ rle_data = <<0, 192, 0, 5>> =>
              /\ Unwrap(rle_ret).count = 0
              /\ Unwrap(rle_ret).target = rle_target
        /\ rle_data = <<0, 64, 0, 5>> =>
              /\ Unwrap(rle_ret).count = 1
              /\ Unwrap(rle_ret).target[1] = 5
              /\ \A k \in 2..Len(rle_target) : Unwrap(rle_ret).target[k] = rle_target[k]

\* 00 C0 00 05 decoded into a target of three 9s.
C11_Witness ==
    /\ IsSome(rle_ret)
    /\ rle_data = <<0, 192, 0, 5>>
    /\ rle_target = <<9, 9, 9>>
    /\ Unwrap(rle_ret).count = 0

(***************************************************************************)
(* decode_rle_to_rgba beside decode_rle_to_indexed                         *)
(***************************************************************************)
\* The longest RLE input handed to both decoders.
MaxRgbaLen == 4

RgbaInputs == UNION {[1..n -> RleBytes] : n \in 0..MaxRgbaLen}

\* an empty palette, a palette of one entry, a palette of three entries with
\* entry 0 transparent
RgbaPalettes == {<<>>, <<Blue>>, <<ZeroRgba, Red, Green>>}
RgbaTargets == {<<>>, <<ZeroRgba, ZeroRgba, ZeroRgba>>, <<Red, Red, Red>>,
                [k \in 1..260 |-> Red]}
\* the index targets of this specification
ShortTargets == {<<>>, <<0, 0, 0>>, <<9, 9, 9>>}

RgbaInit ==
    /\ rle_data \in RgbaInputs
    /\ rle_target = <<>>
    /\ rle_ret = None
    /\ rgba_palette = <<>>
    /\ rgba_target = <<>>
    /\ rgba_ret = None

\* a call decode_rle_to_rgba(&data, &palette, &mut target)
DecodeRleToRgba(palette, target) ==
    /\ rgba_palette' = palette
    /\ rgba_target' = target
    /\ rgba_ret' = Some(decode_rle_to_rgba(rle_data, palette, target))
    /\ UNCHANGED <<rle_data, rle_target, rle_ret>>

RgbaDecode ==
    /\ \E palette \in RgbaPalettes, target \in RgbaTargets : DecodeRleToRgba(palette, target)
    /\ UNCHANGED <<pgsVars, histVars, vobVars, bsVars, byteVars, vobxVars>>

InitRgba == PgsIdle /\ VobIdle /\ BsIdle /\ RgbaInit /\ ByteIdle
RgbaDecodeIndexed ==
    /\ \E target \in ShortTargets : DecodeRleToIndexed(target)
    /\ UNCHANGED <<pgsVars, histVars, vobVars, bsVars, byteVars, vobxVars>>

NextRgba == RgbaDecodeIndexed \/ RgbaDecode
SpecRgba == InitRgba /\ [][NextRgba]_vars

\* The number of pixels the input encodes if it is at most limit, and
\* limit + 1 if it is more: what the decoder counts given room for limit + 1.
DecodedPixelCount(data, limit) == decode_rle_to_indexed(data, Zeros(limit + 1)).count

\* C12: when the pixels the input encodes fit in dst, decode_rle_to_rgba(src,
\* pal, dst) returns the count, and leaves dst with the contents, that
\* decode_rle_to_indexed(src, tmp) followed by apply_palette(tmp, pal, dst)
\* gives, tmp being a buffer for the decoded pixels; an index outside the
\* palette gives 0.
C12_RgbaIsIndexedThenPalette ==
    (IsSome(rgba_ret) /\ DecodedPixelCount(rle_data, Len(rgba_target)) <= Len(rgba_target)) =>
        LET n       == DecodedPixelCount(rle_data, Len(rgba_target))
            indexed == decode_rle_to_indexed(rle_data, Zeros(n))
        IN  /\ Unwrap(rgba_ret).count = indexed.count
            /\ Unwrap(rgba_ret).target = apply_palette(indexed.target, rgba_palette, rgba_target)

\* 00 82 02 02 decoded with a palette of one entry: two pixels of colour 130,
\* which the palette does not hold, then the literal 2, which it does not hold
\* either; all three come out 0 over a target of Red.
C12_Witness ==
    /\ IsSome(rgba_ret)
    /\ rle_data = <<0, 130, 130, 2>>
    /\ rgba_palette = <<Blue>>
    /\ Len(rgba_target) = 3
    /\ rgba_target[1] = Red
    /\ Unwrap(rgba_ret).count = 3
    /\ Unwrap(rgba_ret).target = <<ZeroRgba, ZeroRgba, ZeroRgba>>

\* C13: on every input and every target both decoders return (no index outside
\* the target is used), the count is at most the target's length, and nothing
\* from the count on is written.
DecodeStaysInTarget(ret, target) ==
    IsSome(ret) =>
        /\ ~Unwrap(ret).panicked
        /\ Unwrap(ret).count <= Len(target)
        /\ Len(Unwrap(ret).target) = Len(target)
        /\ \A k \in (Unwrap(ret).count + 1)..Len(target) : Unwrap(ret).target[k] = target[k]

C13_DecodersStayInTarget ==
    /\ DecodeStaysInTarget(rle_ret, rle_target)
    /\ DecodeStaysInTarget(rgba_ret, rgba_target)

\* Both decoders called on 02 00 C1: a literal, then a code cut off after its
\* second byte, whose run of 256 is longer than what is left of a target of 3.
C13_Witness ==
    /\ rle_data = <<2, 0, 193>>
    /\ IsSome(rle_ret) /\ Len(rle_target) = 3 /\ Unwrap(rle_ret).count = 3
    /\ IsSome(rgba_ret) /\ Len(rgba_target) = 3 /\ Unwrap(rgba_ret).count = 3


(***************************************************************************)
(* VobSub SPU bytes: parse_subtitle_data (src/vobsub/sub_parser.rs:197-369) *)
(* and decode_vobsub_rle (src/vobsub/rle.rs).  A byte buffer is a sequence  *)
(* of numbers 0..255; byte k of a buffer d is At(d, k).                     *)
(***************************************************************************)
At(data, k) == data[k + 1]
U16(hi, lo) == hi * 256 + lo
HighNibble(byte) == (byte \div 16) % 16
LowNibble(byte) == byte % 16
\* data[from..to].to_vec()
Slice(data, from, to) == SubSeq(data, from + 1, to)
saturating_sub(a, b) == IF a > b THEN a - b ELSE 0

MAX_ITERATIONS == 1000

\* the locals of parse_subtitle_data before the DCSQ loop (lines 209-224);
\* block_start and next_ctrl_offset are the locals of the loop body, None
\* before the first iteration; broke is set when the body leaves by a break
DcsqStart(data) ==
    [ dcsq_offset         |-> U16(At(data, 2), At(data, 3)),
      x |-> 0, y |-> 0, width |-> 0, height |-> 0,
      duration            |-> 0,
      found_stop          |-> FALSE,
      color_indices       |-> <<0, 1, 2, 3>>,
      alpha_values        |-> <<0, 15, 15, 15>>,
      top_field_offset    |-> 0,
      bottom_field_offset |-> 0,
      ctrl_offset         |-> U16(At(data, 2), At(data, 3)),
      iterations          |-> 0,
      block_start         |-> None,
      next_ctrl_offset    |-> None,
      broke               |-> FALSE ]

\* the four nibbles of a set-palette or set-alpha command (lines 262-265):
\* entry 3 first, entry 0 last
NibbleQuad(data, at) ==
    << LowNibble(At(data, at + 1)), HighNibble(At(data, at + 1)),
       LowNibble(At(data, at)), HighNibble(At(data, at)) >>

\* the command loop of one control block (lines 247-314)
RECURSIVE DcsqCommands(_, _, _)
DcsqCommands(data, delay, st) ==
    LET end_offset == Len(data)
    IN  IF st.ctrl_offset >= end_offset THEN st
        ELSE
        LET cmd == At(data, st.ctrl_offset)
            c   == st.ctrl_offset + 1
            at  == [st EXCEPT !.ctrl_offset = c]
        IN  CASE cmd = 2 ->
                   [at EXCEPT !.duration = (delay * 1024) \div 90, !.found_stop = TRUE]
              [] cmd = 3 ->
                   DcsqCommands(data, delay,
                       IF c + 2 <= end_offset
                       THEN [at EXCEPT !.color_indices = NibbleQuad(data, c),
                                       !.ctrl_offset = c + 2]
                       ELSE at)
              [] cmd = 4 ->
                   DcsqCommands(data, delay,
                       IF c + 2 <= end_offset
                       THEN [at EXCEPT !.alpha_values = NibbleQuad(data, c),
                                       !.ctrl_offset = c + 2]
                       ELSE at)
              [] cmd = 5 ->
                   DcsqCommands(data, delay,
                       IF c + 6 <= end_offset
                       THEN LET x1 == At(data, c) * 16 + HighNibble(At(data, c + 1))
                                x2 == LowNibble(At(data, c + 1)) * 256 + At(data, c + 2)
                                y1 == At(data, c + 3) * 16 + HighNibble(At(data, c + 4))
                                y2 == LowNibble(At(data, c + 4)) * 256 + At(data, c + 5)
                            IN  [at EXCEPT !.x = x1, !.y = y1,
                                           !.width = saturating_sub(x2, x1) + 1,
                                           !.height = saturating_sub(y2, y1) + 1,
                                           !.ctrl_offset = c + 6]
                       ELSE at)
              [] cmd = 6 ->
                   DcsqCommands(data, delay,
                       IF c + 4 <= end_offset
                       THEN [at EXCEPT
                               !.top_field_offset = U16(At(data, c), At(data, c + 1)),
                               !.bottom_field_offset = U16(At(data, c + 2), At(data, c + 3)),
                               !.ctrl_offset = c + 4]
                       ELSE at)
              [] cmd = 255 -> at
              [] OTHER -> DcsqCommands(data, delay, at)

\* the end-of-chain test with a block pointing at itself taken as a next block
ChainEndsOnlyBackwards(next_ctrl_offset, dcsq_offset, block_start) ==
    next_ctrl_offset < dcsq_offset \/ next_ctrl_offset < block_start

\* the test that ends the chain after a block (line 323)
ChainEnds(next_ctrl_offset, dcsq_offset, block_start) ==
    next_ctrl_offset < dcsq_offset \/ next_ctrl_offset <= block_start

\* the condition of the DCSQ loop (line 227), false as well after a break
DcsqContinues(data, st) ==
    /\ ~st.broke
    /\ st.ctrl_offset < Len(data)
    /\ st.iterations < MAX_ITERATIONS
    /\ ~st.found_stop

\* one iteration of the DCSQ loop (lines 228-327)
DcsqBlock(data, st) ==
    LET end_offset  == Len(data)
        block_start == st.ctrl_offset
        counted     == [st EXCEPT !.iterations = @ + 1,
                                  !.block_start = Some(block_start),
                                  !.next_ctrl_offset = None]
    IN  IF block_start + 4 > end_offset THEN [counted EXCEPT !.broke = TRUE]
        ELSE
        LET delay            == U16(At(data, block_start), At(data, block_start + 1))
            next_ctrl_offset == U16(At(data, block_start + 2), At(data, block_start + 3))
            after == DcsqCommands(data, delay,
                        [counted EXCEPT !.ctrl_offset = block_start + 4,
                                        !.next_ctrl_offset = Some(next_ctrl_offset)])
        IN  IF ChainEnds(next_ctrl_offset, st.dcsq_offset, block_start)
            THEN [after EXCEPT !.broke = TRUE]
            ELSE [after EXCEPT !.ctrl_offset = next_ctrl_offset]

\* the DCSQ loop run to its end (lines 227-328)
RECURSIVE DcsqLoop(_, _)
DcsqLoop(data, st) ==
    IF DcsqContinues(data, st) THEN DcsqLoop(data, DcsqBlock(data, st)) ELSE st

\* the field data and the packet built after the loop (lines 330-368)
BuildPacket(data, pts, st) ==
    LET end_offset == Len(data)
        even_start == IF st.top_field_offset > 0 THEN st.top_field_offset ELSE 4
        odd_start  == IF st.bottom_field_offset > 0 THEN st.bottom_field_offset
                      ELSE even_start
        even_field_end == odd_start
        odd_field_end  == st.dcsq_offset
    IN  [ timestamp_ms    |-> pts,
          duration_ms     |-> IF st.duration > 0 THEN st.duration ELSE 5000,
          x |-> st.x, y |-> st.y, width |-> st.width, height |-> st.height,
          color_indices   |-> st.color_indices,
          alpha_values    |-> st.alpha_values,
          even_field_data |-> IF even_start < Min(even_field_end, end_offset)
                              THEN Slice(data, even_start, Min(even_field_end, end_offset))
                              ELSE <<>>,
          odd_field_data  |-> IF odd_start < Min(odd_field_end, end_offset)
                              THEN Slice(data, odd_start, Min(odd_field_end, end_offset))
                              ELSE <<>> ]

\* parse_subtitle_data(data, pts) on the bytes of an SPU
spu_parse_subtitle_data(data, pts) ==
    IF Len(data) < 4 THEN None
    ELSE Some(BuildPacket(data, pts, DcsqLoop(data, DcsqStart(data))))


\* VobSubPalette::default(): 16 packed colours, each as its little-endian bytes
DefaultVobSubPalette ==
    << <<0, 0, 0, 0>>, <<255, 255, 255, 255>>, <<0, 0, 0, 255>>, <<128, 128, 128, 255>> >>
    \o [k \in 1..12 |-> <<0, 0, 0, 255>>]

\* the closure read_nibble of read_rle_code (rle.rs:152-173)
read_nibble(data, bp, np) ==
    [ nibble |-> IF bp >= Len(data) THEN 0
                 ELSE IF np = 0 THEN HighNibble(At(data, bp)) ELSE LowNibble(At(data, bp)),
      bp     |-> IF np = 0 THEN bp ELSE bp + 1,
      np     |-> IF np = 0 THEN 1 ELSE 0 ]

RleCode(value, at) ==
    [ color_idx |-> value % 4, run_length |-> value \div 4, bp |-> at.bp, np |-> at.np ]

\* read_rle_code with the 12-bit code taken from 0x010 on
read_rle_code_EarlyTwelve(data, byte_pos, nibble_pos) ==
    LET r0    == read_nibble(data, byte_pos, nibble_pos)
        n0    == r0.nibble
        r1    == read_nibble(data, r0.bp, r0.np)
        val8  == n0 * 16 + r1.nibble
        r2    == read_nibble(data, r1.bp, r1.np)
        val12 == val8 * 16 + r2.nibble
        r3    == read_nibble(data, r2.bp, r2.np)
        val16 == val12 * 16 + r3.nibble
    IN  IF n0 >= 4 THEN RleCode(n0, r0)
        ELSE IF val8 >= 16 THEN RleCode(val8, r1)
        ELSE IF val12 >= 16 THEN RleCode(val12, r2)
        ELSE RleCode(val16, r3)

\* read_rle_code (rle.rs:146-216): a code of 1, 2, 3 or 4 nibbles
read_rle_code(data, byte_pos, nibble_pos) ==
    LET r0    == read_nibble(data, byte_pos, nibble_pos)
        n0    == r0.nibble
        r1    == read_nibble(data, r0.bp, r0.np)
        val8  == n0 * 16 + r1.nibble
        r2    == read_nibble(data, r1.bp, r1.np)
        val12 == val8 * 16 + r2.nibble
        r3    == read_nibble(data, r2.bp, r2.np)
        val16 == val12 * 16 + r3.nibble
    IN  IF n0 >= 4 THEN RleCode(n0, r0)
        ELSE IF val8 >= 16 THEN RleCode(val8, r1)
        ELSE IF val12 >= 64 THEN RleCode(val12, r2)
        ELSE RleCode(val16, r3)

\* the frame as a sequence of width * height pixels, each the four bytes the
\* source writes at pixel_offset = (y * width + x) * 4; a write whose
\* pixel_offset + 4 is past the buffer is skipped (rle.rs:73, 98, 110, 123, 133)
PutPixels(rgba, width, y, from_x, to_x, color) ==
    [k \in 1..Len(rgba) |->
        IF k - 1 >= y * width + from_x /\ k - 1 < y * width + to_x THEN color ELSE rgba[k]]

\* the loop over the codes of one line (rle.rs:82-128), then the fill of the
\* pixels left (rle.rs:131-137)
RECURSIVE DecodeLine(_, _, _, _, _, _, _, _)
DecodeLine(field_data, rgba, width, y, x, byte_pos, nibble_pos, colors) ==
    IF x < width /\ byte_pos < Len(field_data)
    THEN LET code == read_rle_code(field_data, byte_pos, nibble_pos)
         IN  IF code.bp = byte_pos /\ code.np = nibble_pos
             THEN [ rgba |-> PutPixels(rgba, width, y, x, width, colors[1]),
                    bp |-> byte_pos + 1, np |-> 0 ]
             ELSE IF code.run_length = 0
             THEN [ rgba |-> PutPixels(rgba, width, y, x, width, colors[1]),
                    bp |-> code.bp, np |-> code.np ]
             ELSE LET end_x == Min(x + code.run_length, width)
                  IN  DecodeLine(field_data,
                                 PutPixels(rgba, width, y, x, end_x, colors[code.color_idx + 1]),
                                 width, y, end_x, code.bp, code.np, colors)
    ELSE [ rgba |-> PutPixels(rgba, width, y, x, width, colors[1]),
           bp |-> byte_pos, np |-> nibble_pos ]

\* the loop over the lines with the lines behind the end of the field left as
\* they are
RECURSIVE DecodeFieldLinesNoFill(_, _, _, _, _, _, _, _)
DecodeFieldLinesNoFill(field_data, rgba, width, height, y, byte_pos, nibble_pos, colors) ==
    IF y >= height THEN rgba
    ELSE
    LET bp == IF nibble_pos # 0 THEN byte_pos + 1 ELSE byte_pos
    IN  IF bp >= Len(field_data)
        THEN rgba
        ELSE LET line == DecodeLine(field_data, rgba, width, y, 0, bp, 0, colors)
             IN  DecodeFieldLinesNoFill(field_data, line.rgba, width, height, y + 2,
                                        line.bp, line.np, colors)

\* decode_field (rle.rs:47-141): the lines start_line, start_line + 2, ...
RECURSIVE DecodeFieldLines(_, _, _, _, _, _, _, _)
DecodeFieldLines(field_data, rgba, width, height, y, byte_pos, nibble_pos, colors) ==
    IF y >= height THEN rgba
    ELSE
    LET bp == IF nibble_pos # 0 THEN byte_pos + 1 ELSE byte_pos
    IN  IF bp >= Len(field_data)
        THEN DecodeFieldLines(field_data, PutPixels(rgba, width, y, 0, width, colors[1]),
                              width, height, y + 2, bp, 0, colors)
        ELSE LET line == DecodeLine(field_data, rgba, width, y, 0, bp, 0, colors)
             IN  DecodeFieldLines(field_data, line.rgba, width, height, y + 2,
                                  line.bp, line.np, colors)

decode_field(field_data, rgba, width, height, start_line, colors) ==
    DecodeFieldLines(field_data, rgba, width, height, start_line, 0, 0, colors)

\* the four colours of a packet with their alpha (rle.rs:20-28)
PacketColors(packet, palette) ==
    [i \in 1..4 |->
        LET palette_color == palette[packet.color_indices[i] + 1]
        IN  << palette_color[1], palette_color[2], palette_color[3],
               (packet.alpha_values[i] * 255) \div 15 >>]

\* decode_vobsub_rle (rle.rs:8-44)
decode_vobsub_rle(packet, palette) ==
    IF packet.width = 0 \/ packet.height = 0 THEN <<>>
    ELSE LET colors == PacketColors(packet, palette)
             blank  == [k \in 1..(packet.width * packet.height) |-> <<0, 0, 0, 0>>]
             even   == decode_field(packet.even_field_data, blank,
                                    packet.width, packet.height, 0, colors)
         IN  decode_field(packet.odd_field_data, even,
                          packet.width, packet.height, 1, colors)


(***************************************************************************)
(* SpecSpu: parse_subtitle_data run block by block on one SPU, then        *)
(* decode_vobsub_rle on the packet it returned.                            *)
(***************************************************************************)
U16Bytes(n) == << n \div 256, n % 256 >>

\* An SPU of two control blocks: size, DCSQ offset, the bitmap, a first block
\* (start display, set display area of 2 x 4 pixels, the field command given,
\* end) and a second block (delay 9, the command given, end).  next0 and next1
\* are the next-offsets of the two blocks.
SetArea2x4 == <<5, 0, 0, 1, 0, 0, 3>>
FirstBlockAt(bitmap) == 4 + Len(bitmap)
SecondBlockAt(bitmap, field_cmd) == FirstBlockAt(bitmap) + 4 + 1 + 7 + Len(field_cmd) + 1
SpuOfTwoBlocks(bitmap, field_cmd, next0, next1, last_cmd) ==
    LET rest == U16Bytes(0) \o U16Bytes(next0) \o <<1>> \o SetArea2x4 \o field_cmd \o <<255>>
                \o U16Bytes(9) \o U16Bytes(next1) \o <<last_cmd, 255>>
    IN  U16Bytes(4 + Len(bitmap) + Len(rest)) \o U16Bytes(FirstBlockAt(bitmap))
        \o bitmap \o rest

\* bitmaps of one-nibble codes: lines of two pixels, 9 = two pixels of colour 1,
\* A = two of colour 2, 5 and 6 = one pixel of colour 1 and one of colour 2
SpuBitmaps == { <<>>, <<144, 160>>, <<144, 160, 86, 101>> }
\* no field command, or set field offsets (top, bottom)
FieldCommands == { <<>>, <<6, 0, 4, 0, 0>>, <<6, 0, 4, 0, 6>>, <<6, 0, 0, 0, 0>>, <<6, 0, 0, 0, 6>> }

\* the command of the second block: stop display or start display
LastCommands == { 2, 1 }

\* next-offsets tried for a block: the second block, the first block, the SPU
\* header, past the end of the SPU
NextOffsets(bitmap, field_cmd) ==
    { SecondBlockAt(bitmap, field_cmd), FirstBlockAt(bitmap), 0,
      SecondBlockAt(bitmap, field_cmd) + 6 }

\* A chain of ChainBlocks blocks of five bytes (delay 0, next-offset, end),
\* each pointing at the one after it; the last points past the end.
ChainBlocks == 1001
SpuChain ==
    U16Bytes(4 + 5 * ChainBlocks) \o U16Bytes(4)
    \o [k \in 1..(5 * ChainBlocks) |->
            LET next == 4 + 5 * (((k - 1) \div 5) + 1)
            IN  CASE (k - 1) % 5 = 0 -> 0
                  [] (k - 1) % 5 = 1 -> 0
                  [] (k - 1) % 5 = 2 -> next \div 256
                  [] (k - 1) % 5 = 3 -> next % 256
                  [] OTHER -> 255]

SpuInputs ==
    UNION { { SpuOfTwoBlocks(bitmap, field_cmd, next0, next1, last_cmd) :
                next0 \in NextOffsets(bitmap, field_cmd),
                next1 \in NextOffsets(bitmap, field_cmd),
                last_cmd \in LastCommands } :
            bitmap \in SpuBitmaps, field_cmd \in FieldCommands }
    \cup { SpuChain, <<0, 3, 0>>, <<0, 4, 0, 4>>, <<0, 6, 0, 4, 0, 0>>, <<0, 5, 0, 9, 144>> }

SpuPts == 1000

SpuInit ==
    /\ spu_data \in SpuInputs
    /\ spu_pc = "start"
    /\ spu_loc = <<>>
    /\ spu_ret = None
    /\ spu_frame = None

\* parse_subtitle_data up to the DCSQ loop (lines 197-225)
SpuBegin ==
    /\ spu_pc = "start"
    /\ IF Len(spu_data) < 4
       THEN spu_pc' = "done" /\ UNCHANGED spu_loc
       ELSE spu_pc' = "dcsq" /\ spu_loc' = DcsqStart(spu_data)
    /\ UNCHANGED <<spu_data, spu_ret, spu_frame>>

\* one iteration of the DCSQ loop (lines 227-328)
SpuBlock ==
    /\ spu_pc = "dcsq"
    /\ DcsqContinues(spu_data, spu_loc)
    /\ spu_loc' = DcsqBlock(spu_data, spu_loc)
    /\ UNCHANGED <<spu_data, spu_pc, spu_ret, spu_frame>>

\* the loop left: the fields are cut out and the packet returned (lines 330-368)
SpuFields ==
    /\ spu_pc = "dcsq"
    /\ ~DcsqContinues(spu_data, spu_loc)
    /\ spu_ret' = Some(BuildPacket(spu_data, SpuPts, spu_loc))
    /\ spu_pc' = "done"
    /\ UNCHANGED <<spu_data, spu_loc, spu_frame>>

\* render_packet on the packet returned (vobsub_parser.rs:240)
SpuRender ==
    /\ spu_pc = "done"
    /\ IsSome(spu_ret)
    /\ spu_frame = None
    /\ spu_frame' = Some(decode_vobsub_rle(Unwrap(spu_ret), DefaultVobSubPalette))
    /\ UNCHANGED <<spu_data, spu_pc, spu_loc, spu_ret>>

InitSpu == PgsIdle /\ VobIdle /\ BsIdle /\ RleIdle /\ SpuInit /\ PesIdle /\ DsIdle /\ SupIdle /\ VobxIdle
NextSpu ==
    \/ SpuBegin /\ UNCHANGED <<pgsVars, histVars, vobVars, bsVars, rleVars, pesVars, dsVars, supVars, vobxVars>>
    \/ SpuBlock /\ UNCHANGED <<pgsVars, histVars, vobVars, bsVars, rleVars, pesVars, dsVars, supVars, vobxVars>>
    \/ SpuFields /\ UNCHANGED <<pgsVars, histVars, vobVars, bsVars, rleVars, pesVars, dsVars, supVars, vobxVars>>
    \/ SpuRender /\ UNCHANGED <<pgsVars, histVars, vobVars, bsVars, rleVars, pesVars, dsVars, supVars, vobxVars>>
SpecSpu == InitSpu /\ [][NextSpu]_vars
\* the same with parse_subtitle_data, once called, always running on to its
\* return: a step of the function is taken whenever one is possible
SpuParseStep ==
    (SpuBegin \/ SpuBlock \/ SpuFields)
        /\ UNCHANGED <<pgsVars, histVars, vobVars, bsVars, rleVars, pesVars, dsVars, supVars, vobxVars>>
SpecSpuLive == SpecSpu /\ WF_vars(SpuParseStep)


(***************************************************************************)
(* Claims on the SPU parser                                                *)
(***************************************************************************)
\* line y of a frame of the given width
FrameLine(rgba, width, y) == SubSeq(rgba, y * width + 1, (y + 1) * width)

\* the bitmap bytes of an SPU from the top-field offset (4 when it is 0) up to
\* the first control block
BitmapFromTop(data, st) ==
    LET even_start == IF st.top_field_offset > 0 THEN st.top_field_offset ELSE 4
        bitmap_end == Min(st.dcsq_offset, Len(data))
    IN  IF even_start < bitmap_end THEN Slice(data, even_start, bitmap_end) ELSE <<>>

\* C14: when the bottom-field offset of an SPU is 0, the packet returned has an
\* empty odd field and an even field holding the bitmap bytes from the
\* top-field offset on, and the frame rendered from it has every pixel of its
\* odd lines fully transparent and its even lines as decoded from those bytes.
C14_BottomOffsetZeroEmptyOddField ==
    (spu_pc = "done" /\ IsSome(spu_ret) /\ spu_loc.bottom_field_offset = 0) =>
        LET packet == Unwrap(spu_ret)
            bitmap == BitmapFromTop(spu_data, spu_loc)
        IN  /\ packet.odd_field_data = <<>>
            /\ packet.even_field_data = bitmap
            /\ (IsSome(spu_frame) /\ Unwrap(spu_frame) # <<>>) =>
                 LET frame    == Unwrap(spu_frame)
                     expected == decode_field(bitmap, frame, packet.width, packet.height, 0,
                                              PacketColors(packet, DefaultVobSubPalette))
                 IN  \A y \in 0..(packet.height - 1) :
                        IF y % 2 = 1
                        THEN \A k \in 1..packet.width :
                                FrameLine(frame, packet.width, y)[k][4] = 0
                        ELSE FrameLine(frame, packet.width, y)
                                = FrameLine(expected, packet.width, y)


\* a step of the DCSQ loop taken after an earlier block was visited
NextBlockVisited ==
    /\ spu_pc = "dcsq" /\ spu_pc' = "dcsq"
    /\ IsSome(spu_loc.block_start)
    /\ spu_loc'.iterations = spu_loc.iterations + 1

\* C19: on every SPU the DCSQ interpreter comes to its end; it visits at most
\* 1000 control blocks; every block visited starts strictly after the one
\* visited before it; and no block is visited after one in which a stop command
\* was seen, or whose next-offset is before the first DCSQ offset, or whose
\* next-offset is at or before its own start.
C19_DcsqTerminates ==
    /\ <>(spu_pc = "done")
    /\ [](spu_pc = "dcsq" => spu_loc.iterations <= 1000)
    /\ [][NextBlockVisited =>
            /\ Unwrap(spu_loc'.block_start) > Unwrap(spu_loc.block_start)
            /\ ~spu_loc.found_stop
            /\ IsSome(spu_loc.next_ctrl_offset)
            /\ Unwrap(spu_loc.next_ctrl_offset) >= spu_loc.dcsq_offset
            /\ Unwrap(spu_loc.next_ctrl_offset) > Unwrap(spu_loc.block_start)]_vars

\* The parse of an SPU has returned after two blocks, the second one with no
\* stop command and with a next-offset equal to its own start.
C19_Witness ==
    /\ spu_pc = "done"
    /\ spu_loc # <<>>
    /\ spu_loc.iterations = 2
    /\ ~spu_loc.found_stop
    /\ spu_loc.next_ctrl_offset = spu_loc.block_start
    /\ Unwrap(spu_loc.block_start) > spu_loc.dcsq_offset


(***************************************************************************)
(* parse_subtitle_packet on the bytes of a .sub buffer                     *)
(* (src/vobsub/sub_parser.rs:33-194).  An index past the end of a slice    *)
(* panics; the call then ends with panicked set and returns nothing.       *)
(***************************************************************************)
MAX_SCAN == 262144

\* extract_pts (lines 180-194), for a PTS below 2^31
extract_pts(data, offset) ==
    IF offset + 5 > Len(data) THEN 0
    ELSE LET pts32_30 == (At(data, offset) \div 2) % 8
             pts29_15 == (At(data, offset + 1) * 128) + (At(data, offset + 2) \div 2)
             pts14_0  == (At(data, offset + 3) * 128) + (At(data, offset + 4) \div 2)
             pts      == (pts32_30 * 1073741824) + (pts29_15 * 32768) + pts14_0
         IN  pts \div 90

\* the locals of the scan loop before its first iteration (lines 38-47);
\* subtitle_data is the concatenation of data_chunks and chunks their number;
\* stop is set when the body leaves the loop by a break
ScanStart(start_offset) ==
    [ offset |-> start_offset, pts |-> 0, subtitle_data |-> <<>>, chunks |-> 0,
      expected_size |-> 0, collected_size |-> 0, stop |-> FALSE, panicked |-> FALSE ]

\* a stream skipped by its declared length, its start code ending at
\* st.offset + 4: the padding stream (lines 134-140) and the other streams
\* (lines 148-154)
SkipByLength(data, st) ==
    LET offset == st.offset + 4
    IN  IF offset + 2 > Len(data) THEN [st EXCEPT !.offset = offset, !.stop = TRUE]
        ELSE [st EXCEPT !.offset = offset + 2 + U16(At(data, offset), At(data, offset + 1))]

\* the other stream types (lines 144-155)
OtherStream(data, st) ==
    IF st.chunks > 0 THEN [st EXCEPT !.stop = TRUE] ELSE SkipByLength(data, st)

\* a pack header (lines 60-76)
PackHeader(data, st) ==
    LET offset == st.offset + 4
    IN  IF offset < Len(data) /\ (At(data, offset) \div 64) % 4 = 1
        THEN IF offset + 9 < Len(data)
             THEN [st EXCEPT !.offset = offset + 9 + 1 + (At(data, offset + 9) % 8)]
             ELSE [st EXCEPT !.offset = offset + 9]
        ELSE [st EXCEPT !.offset = offset + 8]

\* a private stream 1 packet (lines 79-130)
PrivateStream1(data, st) ==
    LET data_len  == Len(data)
        at_length == st.offset + 4
    IN  IF at_length + 2 > data_len THEN [st EXCEPT !.offset = at_length, !.stop = TRUE]
        ELSE
        LET pes_length == U16(At(data, at_length), At(data, at_length + 1))
            at_header  == at_length + 2
        IN  IF at_header + pes_length > data_len
            THEN [st EXCEPT !.offset = at_header, !.stop = TRUE]
            ELSE IF at_header + 2 >= data_len
            THEN \* data[offset + 1] or data[offset + 2] is past the end (lines 94-95)
                 [st EXCEPT !.offset = at_header, !.stop = TRUE, !.panicked = TRUE]
            ELSE
            LET pes_flags          == At(data, at_header + 1)
                header_data_length == At(data, at_header + 2)
                at_header_data     == at_header + 3
                pts == IF pes_flags >= 128 /\ st.pts = 0
                       THEN extract_pts(data, at_header_data) ELSE st.pts
                at_payload     == at_header_data + header_data_length + 1
                payload_length == saturating_sub(pes_length, 3 + header_data_length + 1)
            IN  IF payload_length > 0 /\ at_payload + payload_length <= data_len
                THEN LET payload   == Slice(data, at_payload, at_payload + payload_length)
                         expected  == IF st.expected_size = 0 /\ Len(payload) >= 2
                                      THEN U16(payload[1], payload[2])
                                      ELSE st.expected_size
                         collected == st.collected_size + payload_length
                     IN  [st EXCEPT !.pts = pts,
                                    !.subtitle_data = @ \o payload,
                                    !.chunks = @ + 1,
                                    !.expected_size = expected,
                                    !.collected_size = collected,
                                    !.offset = at_payload + payload_length,
                                    !.stop = expected > 0 /\ collected >= expected]
                ELSE OtherStream(data, [st EXCEPT !.pts = pts, !.offset = at_payload])

\* one iteration of the scan loop (lines 51-157)
ScanStep(data, st) ==
    LET offset == st.offset
    IN  IF At(data, offset) # 0 \/ At(data, offset + 1) # 0 \/ At(data, offset + 2) # 1
        THEN [st EXCEPT !.offset = offset + 1]
        ELSE LET stream_id == At(data, offset + 3)
             IN  CASE stream_id = 186 -> PackHeader(data, st)
                   [] stream_id = 189 -> PrivateStream1(data, st)
                   [] stream_id = 190 -> SkipByLength(data, st)
                   [] stream_id >= 188 /\ stream_id \notin {189, 190} -> OtherStream(data, st)
                   [] OTHER -> [st EXCEPT !.offset = offset + 1]

\* the scan loop (lines 50-158)
RECURSIVE ScanLoop(_, _, _)
ScanLoop(data, max_scan, st) ==
    IF ~st.stop /\ st.offset < saturating_sub(max_scan, 4)
    THEN ScanLoop(data, max_scan, ScanStep(data, st))
    ELSE st

\* parse_subtitle_packet(data, start_offset, palette): how the call ended, and
\* the packet and the offset it returned
pes_parse_subtitle_packet(data, start_offset) ==
    LET max_scan == Min(start_offset + MAX_SCAN, Len(data))
        st       == ScanLoop(data, max_scan, ScanStart(start_offset))
    IN  IF st.panicked THEN [panicked |-> TRUE, ret |-> None]
        ELSE IF st.chunks = 0 \/ Len(st.subtitle_data) < 4
        THEN [panicked |-> FALSE, ret |-> None]
        ELSE [panicked |-> FALSE,
              ret |-> Some([packet |-> Unwrap(spu_parse_subtitle_data(st.subtitle_data, st.pts)),
                            offset |-> st.offset])]


(***************************************************************************)
(* SpecPes: parse_subtitle_packet called on a .sub buffer.                 *)
(***************************************************************************)
\* an MPEG-2 pack header with no stuffing
PackHeaderBytes == <<0, 0, 1, 186, 68, 0, 0, 0, 0, 0, 0, 0, 0, 248>>
\* the five PTS bytes of a PES header for 90000 ticks, one second
PtsBytes == <<33, 0, 5, 191, 33>>
\* a private stream 1 PES packet: start code, declared length, the three fixed
\* header bytes with the PTS flag, the PTS, the substream id, the payload
PesPacket(pes_length, header_data_length, payload) ==
    <<0, 0, 1, 189>> \o U16Bytes(pes_length) \o <<129, 128, header_data_length>>
    \o PtsBytes \o <<32>> \o payload
PesLengthOf(payload) == 3 + Len(PtsBytes) + 1 + Len(payload)

PesPayloads == { <<0, 6, 0, 4, 0, 0>>, SpuOfTwoBlocks(<<144, 160>>, <<6, 0, 4, 0, 5>>, 24, 24, 2) }
\* declared PES lengths: shorter than the fixed header, the header alone, the
\* right one, one running past the buffer
PesLengths(payload) == { 0, 1, 2, 3, PesLengthOf(payload), PesLengthOf(payload) + 10 }
HeaderDataLengths == { Len(PtsBytes), 0, 200 }

Prefixes(buffer) == { SubSeq(buffer, 1, n) : n \in 0..Len(buffer) }

\* the SPU of a packet split over two PES packets
SplitPacket ==
    LET spu == SpuOfTwoBlocks(<<144, 160>>, <<6, 0, 4, 0, 5>>, 24, 24, 2)
    IN  PackHeaderBytes
        \o PesPacket(PesLengthOf(SubSeq(spu, 1, 10)), Len(PtsBytes), SubSeq(spu, 1, 10))
        \o PesPacket(PesLengthOf(SubSeq(spu, 11, 30)), Len(PtsBytes), SubSeq(spu, 11, 30))

PesBuffers ==
    UNION { UNION { Prefixes(lead \o PesPacket(pes_length, header_data_length, payload)) :
                        pes_length \in PesLengths(payload),
                        header_data_length \in HeaderDataLengths,
                        lead \in { <<>>, PackHeaderBytes } } :
            payload \in PesPayloads }
    \cup { SplitPacket }
StartOffsets == { 0, 1, Len(PackHeaderBytes) }

PesInit ==
    /\ pes_data \in PesBuffers
    /\ pes_offset = 0
    /\ pes_ret = None

\* a call parse_subtitle_packet(&data, start_offset, &palette)
ParseSubtitlePacket(start_offset) ==
    /\ pes_offset' = start_offset
    /\ pes_ret' = Some(pes_parse_subtitle_packet(pes_data, start_offset))
    /\ UNCHANGED pes_data

PesParse ==
    /\ \E start_offset \in StartOffsets : ParseSubtitlePacket(start_offset)
    /\ UNCHANGED <<pgsVars, histVars, vobVars, bsVars, rleVars, spuVars, dsVars, supVars, vobxVars>>

InitPes == PgsIdle /\ VobIdle /\ BsIdle /\ RleIdle /\ SpuIdle /\ PesInit /\ DsIdle /\ SupIdle /\ VobxIdle
NextPes == PesParse
SpecPes == InitPes /\ [][NextPes]_vars

\* C15: for every .sub buffer and every start offset parse_subtitle_packet ends
\* by returning a packet or nothing, with no read past the end of the buffer
\* (which in the source is a panic), also when the declared PES length or the
\* header offsets run past the available bytes or the PES length is smaller
\* than the three fixed header bytes.
C15_PacketOrNothing ==
    IsSome(pes_ret) => ~Unwrap(pes_ret).panicked


(***************************************************************************)
(* PGS bytes: BigEndianReader (src/utils.rs:7-72), the segment parsers and *)
(* DisplaySet::parse (src/pgs/display_set.rs:45-123).  A reader is the     *)
(* buffer and a position in it.  What depends on the build is taken from   *)
(* the record b: with b.overflow_checks a usize subtraction below zero     *)
(* panics, without it the result wraps; with b.eof_on_failure a failed     *)
(* read_exact leaves the Cursor at the end of the buffer, without it the   *)
(* Cursor stays where it was.                                              *)
(***************************************************************************)
Builds == [overflow_checks : BOOLEAN, eof_on_failure : BOOLEAN]

U32(b0, b1, b2, b3) == ((b0 * 256 + b1) * 256 + b2) * 256 + b3

\* a run of reads of the given sizes from pos: whether all succeeded and where
\* the reader is afterwards (read_u8, read_u16, read_u24, read_u32, read_bytes)
RECURSIVE ReadAll(_, _, _, _)
ReadAll(data, pos, sizes, b) ==
    IF sizes = <<>> THEN [ok |-> TRUE, pos |-> pos]
    ELSE IF pos + Head(sizes) <= Len(data)
    THEN ReadAll(data, pos + Head(sizes), Tail(sizes), b)
    ELSE [ok |-> FALSE, pos |-> IF b.eof_on_failure THEN Len(data) ELSE pos]

\* what a segment parser hands back: the segment or None, where it left the
\* reader, and whether it panicked
Parsed(segment, pos) == [panicked |-> FALSE, segment |-> Some(segment), pos |-> pos]
Failed(pos) == [panicked |-> FALSE, segment |-> None, pos |-> pos]
Panicked(pos) == [panicked |-> TRUE, segment |-> None, pos |-> pos]

\* round() of a value given in hundred-thousandths, then clamp to 0..255
RoundClamp(n) ==
    LET rounded == IF n >= 0 THEN (n + 50000) \div 100000 ELSE 0 - ((50000 - n) \div 100000)
    IN  IF rounded < 0 THEN 0 ELSE IF rounded > 255 THEN 255 ELSE rounded

\* ycbcr_to_rgba (utils.rs:77-89), the products taken exactly
ycbcr_to_rgba(y, cb, cr, a) ==
    << RoundClamp(100000 * y + 140200 * (cr - 128)),
       RoundClamp(100000 * y - 34414 * (cb - 128) - 71414 * (cr - 128)),
       RoundClamp(100000 * y + 177200 * (cb - 128)),
       a >>

\* the palette entries read one after the other (palette.rs:29-41)
RECURSIVE PaletteEntries(_, _, _, _)
PaletteEntries(data, at, entry_count, rgba) ==
    IF entry_count = 0 THEN rgba
    ELSE PaletteEntries(data, at + 5, entry_count - 1,
            [rgba EXCEPT ![At(data, at) + 1] =
                ycbcr_to_rgba(At(data, at + 1), At(data, at + 3), At(data, at + 2),
                              At(data, at + 4))])

\* PaletteDefinitionSegment::parse (palette.rs:19-44).  With length < 2 the
\* subtraction length - 2 panics or wraps; wrapped, the entry count is more
\* than any buffer holds and the loop reads bytes until a read fails.
palette_parse(data, pos, length, b) ==
    LET head == ReadAll(data, pos, <<1, 1>>, b)
    IN  IF ~head.ok THEN Failed(head.pos)
        ELSE IF length < 2
        THEN IF b.overflow_checks THEN Panicked(head.pos) ELSE Failed(Len(data))
        ELSE LET entry_count == (length - 2) \div 5
             IN  IF pos + 2 + 5 * entry_count > Len(data) THEN Failed(Len(data))
                 ELSE Parsed([ id |-> At(data, pos), version |-> At(data, pos + 1),
                               rgba |-> PaletteEntries(data, pos + 2, entry_count,
                                           [k \in 1..PALETTE_ENTRIES |-> ZeroRgba]) ],
                             pos + 2 + 5 * entry_count)

\* ObjectDefinitionSegment::parse (object.rs:26-55).  With length below the
\* fixed fields the subtraction length - 11 (or length - 4) panics, or wraps
\* to a size whose allocation panics.
object_parse(data, pos, length, b) ==
    LET head == ReadAll(data, pos, <<2, 1, 1>>, b)
    IN  IF ~head.ok THEN Failed(head.pos)
        ELSE
        LET id            == U16(At(data, pos), At(data, pos + 1))
            version       == At(data, pos + 2)
            sequence_flag == At(data, pos + 3)
        IN  IF sequence_flag >= 128
            THEN LET dims == ReadAll(data, pos + 4, <<3, 2, 2>>, b)
                 IN  IF ~dims.ok THEN Failed(dims.pos)
                     ELSE IF length < 11 THEN Panicked(dims.pos)
                     ELSE LET bytes == ReadAll(data, pos + 11, <<length - 11>>, b)
                          IN  IF ~bytes.ok THEN Failed(bytes.pos)
                              ELSE Parsed([ id |-> id, version |-> version,
                                            sequence_flag |-> sequence_flag,
                                            data_length |-> (At(data, pos + 4) * 256
                                                + At(data, pos + 5)) * 256 + At(data, pos + 6),
                                            width  |-> U16(At(data, pos + 7), At(data, pos + 8)),
                                            height |-> U16(At(data, pos + 9), At(data, pos + 10)),
                                            data   |-> Slice(data, pos + 11, pos + length) ],
                                          pos + length)
            ELSE IF length < 4 THEN Panicked(head.pos)
            ELSE LET bytes == ReadAll(data, pos + 4, <<length - 4>>, b)
                 IN  IF ~bytes.ok THEN Failed(bytes.pos)
                     ELSE Parsed([ id |-> id, version |-> version,
                                   sequence_flag |-> sequence_flag,
                                   data_length |-> 0, width |-> 0, height |-> 0,
                                   data |-> Slice(data, pos + 4, pos + length) ],
                                 pos + length)

\* the windows read one after the other (window.rs:33-47)
RECURSIVE ReadWindows(_, _, _, _, _)
ReadWindows(data, pos, count, windows, b) ==
    IF count = 0 THEN Parsed([windows |-> windows], pos)
    ELSE LET read == ReadAll(data, pos, <<1, 2, 2, 2, 2>>, b)
         IN  IF ~read.ok THEN Failed(read.pos)
             ELSE ReadWindows(data, pos + 9, count - 1,
                     Append(windows,
                        [ id     |-> At(data, pos),
                          x      |-> U16(At(data, pos + 1), At(data, pos + 2)),
                          y      |-> U16(At(data, pos + 3), At(data, pos + 4)),
                          width  |-> U16(At(data, pos + 5), At(data, pos + 6)),
                          height |-> U16(At(data, pos + 7), At(data, pos + 8)) ]), b)

\* WindowDefinitionSegment::parse (window.rs:29-50)
window_parse(data, pos, length, b) ==
    LET head == ReadAll(data, pos, <<1>>, b)
    IN  IF ~head.ok THEN Failed(head.pos)
        ELSE ReadWindows(data, pos + 1, At(data, pos), <<>>, b)

\* the composition objects read one after the other (composition.rs:72-101)
RECURSIVE ReadCompositionObjects(_, _, _, _, _)
ReadCompositionObjects(data, pos, count, objects, b) ==
    IF count = 0 THEN [ok |-> TRUE, pos |-> pos, objects |-> objects]
    ELSE LET read == ReadAll(data, pos, <<2, 1, 1, 2, 2>>, b)
         IN  IF ~read.ok THEN [ok |-> FALSE, pos |-> read.pos, objects |-> objects]
             ELSE
             LET cropped == At(data, pos + 3) >= 128
                 crop    == IF cropped THEN ReadAll(data, pos + 8, <<2, 2, 2, 2>>, b)
                            ELSE [ok |-> TRUE, pos |-> pos + 8]
                 Crop(k) == IF cropped THEN U16(At(data, pos + 8 + 2 * k), At(data, pos + 9 + 2 * k))
                            ELSE 0
             IN  IF ~crop.ok THEN [ok |-> FALSE, pos |-> crop.pos, objects |-> objects]
                 ELSE ReadCompositionObjects(data, crop.pos, count - 1,
                         Append(objects,
                            [ object_id    |-> U16(At(data, pos), At(data, pos + 1)),
                              window_id    |-> At(data, pos + 2),
                              cropped_flag |-> At(data, pos + 3),
                              x |-> U16(At(data, pos + 4), At(data, pos + 5)),
                              y |-> U16(At(data, pos + 6), At(data, pos + 7)),
                              crop_x |-> Crop(0), crop_y |-> Crop(1),
                              crop_width |-> Crop(2), crop_height |-> Crop(3) ]), b)

\* PresentationCompositionSegment::parse (composition.rs:60-113)
composition_parse(data, pos, length, b) ==
    LET head == ReadAll(data, pos, <<2, 2, 1, 2, 1, 1, 1, 1>>, b)
    IN  IF ~head.ok THEN Failed(head.pos)
        ELSE LET objs == ReadCompositionObjects(data, pos + 11, At(data, pos + 10), <<>>, b)
             IN  IF ~objs.ok THEN Failed(objs.pos)
                 ELSE Parsed([ width  |-> U16(At(data, pos), At(data, pos + 1)),
                               height |-> U16(At(data, pos + 2), At(data, pos + 3)),
                               frame_rate |-> At(data, pos + 4),
                               composition_number |-> U16(At(data, pos + 5), At(data, pos + 6)),
                               composition_state |-> At(data, pos + 7),
                               palette_update_flag |-> At(data, pos + 8),
                               palette_id |-> At(data, pos + 9),
                               composition_objects |-> objs.objects ],
                             objs.pos)


\* DisplaySet::new (display_set.rs:32-41)
NewDisplaySet ==
    [ pts |-> 0, dts |-> 0, composition |-> None,
      palettes |-> <<>>, objects |-> <<>>, windows |-> <<>> ]

\* the segment parser chosen by the segment type (display_set.rs:82-113);
\* the end segment and an unknown type are not parsed
segment_parse(data, pos, segment_type, segment_size, b) ==
    CASE segment_type = 20 -> palette_parse(data, pos, segment_size, b)
      [] segment_type = 21 -> object_parse(data, pos, segment_size, b)
      [] segment_type = 22 -> composition_parse(data, pos, segment_size, b)
      [] segment_type = 23 -> window_parse(data, pos, segment_size, b)
      [] OTHER -> Failed(pos + segment_size)

\* a parsed segment put into the display set (display_set.rs:84-103)
WithSegment(display_set, segment_type, segment, pts, dts) ==
    CASE segment_type = 20 -> [display_set EXCEPT !.palettes = Append(@, segment)]
      [] segment_type = 21 -> [display_set EXCEPT !.objects = Append(@, segment)]
      [] segment_type = 22 -> [display_set EXCEPT !.pts = pts, !.dts = dts,
                                                  !.composition = Some(segment)]
      [] segment_type = 23 -> [display_set EXCEPT !.windows = Append(@, segment)]
      [] OTHER -> display_set

\* the loop of DisplaySet::parse with include_header = true
\* (display_set.rs:49-122), the reader at pos
RECURSIVE DisplaySetLoop(_, _, _, _)
DisplaySetLoop(data, pos, display_set, b) ==
    IF pos + 13 > Len(data) \/ U16(At(data, pos), At(data, pos + 1)) # 20551
    THEN [panicked |-> FALSE, ret |-> None]
    ELSE
    LET pts == U32(At(data, pos + 2), At(data, pos + 3), At(data, pos + 4), At(data, pos + 5))
        dts == U32(At(data, pos + 6), At(data, pos + 7), At(data, pos + 8), At(data, pos + 9))
        stamped == IF display_set.pts = 0
                   THEN [display_set EXCEPT !.pts = pts, !.dts = dts] ELSE display_set
        segment_type == At(data, pos + 10)
        segment_size == U16(At(data, pos + 11), At(data, pos + 12))
        start_pos    == pos + 13
    IN  IF Len(data) - start_pos < segment_size THEN [panicked |-> FALSE, ret |-> None]
        ELSE IF segment_type = 128
        THEN [panicked |-> FALSE, ret |-> Some([display_set |-> stamped, consumed |-> start_pos])]
        ELSE
        LET parsed   == segment_parse(data, start_pos, segment_type, segment_size, b)
            kept     == IF IsSome(parsed.segment)
                        THEN WithSegment(stamped, segment_type, Unwrap(parsed.segment), pts, dts)
                        ELSE stamped
            consumed == parsed.pos - start_pos
            next_pos == IF consumed < segment_size THEN start_pos + segment_size
                        ELSE parsed.pos
        IN  IF parsed.panicked THEN [panicked |-> TRUE, ret |-> None]
            ELSE DisplaySetLoop(data, next_pos, kept, b)

\* DisplaySet::parse(data, true): the display set and the bytes consumed
display_set_parse(data, b) == DisplaySetLoop(data, 0, NewDisplaySet, b)

\* not the program: a search for 0x47, the second byte of the magic number
memchr_0x47(data, offset) ==
    LET hits == {k \in offset..(Len(data) - 1) : At(data, k) = 71}
    IN  IF hits = {} THEN None
        ELSE Some((CHOOSE k \in hits : \A j \in hits : k <= j) - offset)

\* memchr(0x50, &data[offset..]): the position found, counted from offset
RECURSIVE memchr_0x50(_, _)
memchr_0x50(data, offset) ==
    IF offset >= Len(data) THEN None
    ELSE IF At(data, offset) = 80 THEN Some(0)
    ELSE LET rest == memchr_0x50(data, offset + 1)
         IN  IF IsSome(rest) THEN Some(Unwrap(rest) + 1) ELSE None

\* the loop of PgsParser::parse over the bytes of a file (parser.rs:68-92)
RECURSIVE PgsParseLoop(_, _, _, _)
PgsParseLoop(data, offset, sets, b) ==
    IF offset >= Len(data) THEN [panicked |-> FALSE, display_sets |-> sets]
    ELSE
    LET parsed == display_set_parse(Slice(data, offset, Len(data)), b)
    IN  IF parsed.panicked THEN [panicked |-> TRUE, display_sets |-> sets]
        ELSE IF IsSome(parsed.ret)
        THEN PgsParseLoop(data, offset + Unwrap(parsed.ret).consumed,
                          Append(sets, Unwrap(parsed.ret).display_set), b)
        ELSE LET found == memchr_0x50(data, offset + 1)
             IN  IF ~IsSome(found) THEN [panicked |-> FALSE, display_sets |-> sets]
                 ELSE LET candidate == offset + 1 + Unwrap(found)
                      IN  IF candidate + 1 < Len(data) /\ At(data, candidate + 1) = 71
                          THEN PgsParseLoop(data, candidate, sets, b)
                          ELSE PgsParseLoop(data, candidate + 1, sets, b)

\* PgsParser::parse on the bytes of a file: the display sets and timestamps_ms
\* it leaves in the parser (parser.rs:53-95)
pgs_parse_bytes(data, b) ==
    LET done == PgsParseLoop(data, 0, <<>>, b)
    IN  [ panicked      |-> done.panicked,
          display_sets  |-> done.display_sets,
          timestamps_ms |-> [k \in 1..Len(done.display_sets) |-> pts_ms(done.display_sets[k])] ]


(***************************************************************************)
(* SpecDs: DisplaySet::parse called on the bytes of a display set, one of  *)
(* whose segments declares a size smaller than its fields.                 *)
(***************************************************************************)
U32Bytes(n) == << (n \div 16777216) % 256, (n \div 65536) % 256, (n \div 256) % 256, n % 256 >>

\* the 13 bytes in front of every segment: "PG", PTS, DTS, type, size
SegmentHeader(pts, segment_type, segment_size) ==
    <<80, 71>> \o U32Bytes(pts) \o U32Bytes(0) \o <<segment_type>> \o U16Bytes(segment_size)

\* a segment whose declared size is declared, holding that many bytes of body
Segment(pts, segment_type, body, declared) ==
    SegmentHeader(pts, segment_type, declared) \o SubSeq(body, 1, declared)

\* bodies: a composition of one object, one window, a palette of one entry
\* (entry 1, white), a complete object of 2 x 1 pixels
CompositionBody == <<7, 128, 4, 56, 16, 0, 1, 128, 0, 0, 1, 0, 1, 0, 0, 0, 100, 0, 50>>
WindowBody == <<1, 0, 0, 0, 0, 0, 7, 128, 4, 56>>
PaletteBody == <<0, 0, 1, 255, 128, 128, 255>>
ObjectBody == <<0, 1, 0, 192, 0, 0, 6, 0, 2, 0, 1, 1, 2>>
BodyOf(segment_type) ==
    CASE segment_type = 22 -> CompositionBody
      [] segment_type = 23 -> WindowBody
      [] segment_type = 20 -> PaletteBody
      [] segment_type = 21 -> ObjectBody
      [] OTHER -> <<>>

\* the bytes the fields of the body take: the size below which the segment
\* parser runs past the segment
FieldsOf(segment_type) ==
    CASE segment_type = 22 -> 19
      [] segment_type = 23 -> 10
      [] segment_type = 20 -> 2
      [] segment_type = 21 -> 11
      [] OTHER -> 0

SegmentOrder == <<22, 23, 20, 21, 128>>
DsPts == 90000

\* the display set with segment k declared with the given size, or left out
RECURSIVE DisplaySetBytes(_, _, _)
DisplaySetBytes(k, declared, from) ==
    IF from > Len(SegmentOrder) THEN <<>>
    ELSE LET segment_type == SegmentOrder[from]
             body         == BodyOf(segment_type)
         IN  (IF from # k THEN Segment(DsPts, segment_type, body, Len(body))
              ELSE IF declared >= 0 THEN Segment(DsPts, segment_type, body, declared)
              ELSE <<>>)
             \o DisplaySetBytes(k, declared, from + 1)

DsInit ==
    /\ build \in Builds
    /\ \E k \in 0..4 :
          \E declared \in 0..(IF k = 0 THEN 0 ELSE FieldsOf(SegmentOrder[k]) - 1) :
             /\ ds_data = DisplaySetBytes(k, declared, 1)
             /\ ds_sound = DisplaySetBytes(k, 0 - 1, 1)
    /\ ds_ret = None

\* a call DisplaySet::parse(&data, true)
DisplaySetParse ==
    /\ ds_ret = None
    /\ ds_ret' = Some(display_set_parse(ds_data, build))
    /\ UNCHANGED <<build, ds_data, ds_sound>>

\* the same call on the display set without the damaged segment
DisplaySetParseSound ==
    /\ ds_ret = None
    /\ ds_ret' = Some(display_set_parse(ds_sound, build))
    /\ ds_data' = ds_sound
    /\ UNCHANGED <<build, ds_sound>>

InitDs == PgsIdle /\ VobIdle /\ BsIdle /\ RleIdle /\ SpuIdle /\ PesIdle /\ DsInit /\ SupIdle /\ VobxIdle
NextDs ==
    \/ DisplaySetParse
         /\ UNCHANGED <<pgsVars, histVars, vobVars, bsVars, rleVars, spuVars, pesVars, supVars, vobxVars>>
    \/ DisplaySetParseSound
         /\ UNCHANGED <<pgsVars, histVars, vobVars, bsVars, rleVars, spuVars, pesVars, supVars, vobxVars>>
SpecDs == InitDs /\ [][NextDs]_vars

\* C16: when a segment of a display set declares a size smaller than its
\* fields, DisplaySet::parse drops that segment only: it returns the display
\* set with the segments that the same bytes without that segment give.
C16_OnlyDamagedSegmentDropped ==
    IsSome(ds_ret) =>
        LET sound == display_set_parse(ds_sound, build)
        IN  /\ ~Unwrap(ds_ret).panicked
            /\ IsSome(Unwrap(ds_ret).ret)
            /\ Unwrap(Unwrap(ds_ret).ret).display_set = Unwrap(sound.ret).display_set


(***************************************************************************)
(* SpecSup: PgsParser::parse called on the bytes of a file made of two     *)
(* valid display sets with other bytes put between them.                   *)
(***************************************************************************)
\* a display set of the five segments, every one complete, stamped pts
RECURSIVE ValidDisplaySet(_, _)
ValidDisplaySet(pts, from) ==
    IF from > Len(SegmentOrder) THEN <<>>
    ELSE LET body == BodyOf(SegmentOrder[from])
         IN  Segment(pts, SegmentOrder[from], body, Len(body)) \o ValidDisplaySet(pts, from + 1)

FirstPts == {90000, 99000}
SecondPts == {180000, 270000}

\* the bytes put between the two display sets: bytes without 0x50, 0x50
\* without 0x47 behind it, and bytes that hold the magic number: the magic
\* number alone, a header cut short, a header of an unknown segment type whose
\* size reaches the end segment of the second display set, the header of an
\* object segment of size 0, and a display set without its end segment
Between(second) ==
    { <<0>>, <<255, 1, 2>>, <<80>>, <<80, 80>>, <<80, 0, 71>>, <<71, 80>>,
      <<80, 71>>, <<80, 71, 0, 0>>,
      SegmentHeader(1, 99, Len(second) - 13),
      SegmentHeader(1, 21, 0),
      Segment(1, 22, CompositionBody, Len(CompositionBody))
          \o Segment(1, 23, WindowBody, Len(WindowBody)) }

SupInit ==
    /\ build \in Builds
    /\ ds_data = <<>>
    /\ ds_sound = <<>>
    /\ ds_ret = None
    /\ \E first \in FirstPts, second \in SecondPts :
          /\ sup_sets = <<ValidDisplaySet(first, 1), ValidDisplaySet(second, 1)>>
          /\ sup_between \in Between(ValidDisplaySet(second, 1))
    /\ sup_ret = None

\* a call parser.parse(&data) on the first display set, the bytes between,
\* the second display set
PgsParseBytes ==
    /\ sup_ret = None
    /\ sup_ret' = Some(pgs_parse_bytes(sup_sets[1] \o sup_between \o sup_sets[2], build))
    /\ UNCHANGED <<sup_sets, sup_between>>

\* the same call on the two display sets with nothing between them
PgsParseBytesSound ==
    /\ sup_ret = None
    /\ sup_ret' = Some(pgs_parse_bytes(sup_sets[1] \o sup_sets[2], build))
    /\ sup_between' = <<>>
    /\ UNCHANGED sup_sets

InitSup == PgsIdle /\ VobIdle /\ BsIdle /\ RleIdle /\ SpuIdle /\ PesIdle /\ SupInit /\ VobxIdle
NextSup ==
    \/ PgsParseBytes
         /\ UNCHANGED <<pgsVars, histVars, vobVars, bsVars, rleVars, spuVars, pesVars, dsVars, vobxVars>>
    \/ PgsParseBytesSound
         /\ UNCHANGED <<pgsVars, histVars, vobVars, bsVars, rleVars, spuVars, pesVars, dsVars, vobxVars>>
SpecSup == InitSup /\ [][NextSup]_vars

\* the two display sets as DisplaySet::parse gives them one by one
BothDisplaySets ==
    << Unwrap(display_set_parse(sup_sets[1], build).ret).display_set,
       Unwrap(display_set_parse(sup_sets[2], build).ret).display_set >>

\* parse has given both display sets, in stream order, each with its PTS
YieldsBoth ==
    /\ ~Unwrap(sup_ret).panicked
    /\ Unwrap(sup_ret).display_sets = BothDisplaySets
    /\ Unwrap(sup_ret).timestamps_ms
         = << BothDisplaySets[1].pts \div 90, BothDisplaySets[2].pts \div 90 >>
    /\ BothDisplaySets[1].pts \in FirstPts
    /\ BothDisplaySets[2].pts \in SecondPts

\* the bytes hold the magic number 0x50 0x47
HoldsMagic(bytes) ==
    \E k \in 1..(Len(bytes) - 1) : bytes[k] = 80 /\ bytes[k + 1] = 71

\* C17 as the specification states it: whatever bytes are put between two
\* valid display sets, parse yields both display sets, in stream order, each
\* with its own PTS.
C17_BothYieldedWhateverBetween ==
    IsSome(sup_ret) => YieldsBoth

\* C17: when the bytes put between two valid display sets do not hold the
\* magic number 0x50 0x47, parse yields both display sets, in stream order,
\* each with its own PTS: the scanner passes every 0x50 that is not followed
\* by 0x47 and tries again at the magic number of the second display set.
C17_BothYieldedAcrossBytesWithoutMagic ==
    (IsSome(sup_ret) /\ ~HoldsMagic(sup_between)) => YieldsBoth

\* parse has passed a 0x50 between the display sets that 0x47 does not follow
C17_Witness ==
    /\ IsSome(sup_ret)
    /\ sup_between = <<80, 0, 71>>
    /\ Len(Unwrap(sup_ret).display_sets) = 2
    /\ Unwrap(sup_ret).timestamps_ms = <<1100, 3000>>


(***************************************************************************)
(* idx_parser.rs: parse_idx on the lines of an .idx text.  A line is given *)
(* trimmed and split as the parser splits it: its prefix, the parts of     *)
(* the time between the colons (each a string of characters: the digits    *)
(* 0..9, and 10 for any other character), whether a comma follows the      *)
(* time, and the hex digits behind "filepos:" (0..15, and 16 for any other *)
(* character), if that prefix is there.                                    *)
(***************************************************************************)
\* str::parse::<u32> on the strings of the model (at most 3 characters)
ParseU32(part) ==
    IF part = <<>> \/ \E k \in 1..Len(part) : part[k] \notin 0..9 THEN None
    ELSE LET RECURSIVE Value(_)
             Value(n) == IF n = 0 THEN 0 ELSE Value(n - 1) * 10 + part[n]
         IN  Some(Value(Len(part)))

\* u64::from_str_radix(hex, 16) on the strings of the model
ParseHex(hex) ==
    IF hex = <<>> \/ \E k \in 1..Len(hex) : hex[k] \notin 0..15 THEN None
    ELSE LET RECURSIVE Value(_)
             Value(n) == IF n = 0 THEN 0 ELSE Value(n - 1) * 16 + hex[n]
         IN  Some(Value(Len(hex)))

\* the entry a "timestamp:" line gives, if it gives one (idx_parser.rs:131-160)
TimestampEntry(line) ==
    IF ~line.comma \/ ~IsSome(line.filepos) \/ Len(line.time) # 4 THEN None
    ELSE LET h  == ParseU32(line.time[1])
             m  == ParseU32(line.time[2])
             s  == ParseU32(line.time[3])
             ms == ParseU32(line.time[4])
             file_position == ParseHex(Unwrap(line.filepos))
         IN  IF IsSome(h) /\ IsSome(m) /\ IsSome(s) /\ IsSome(ms) /\ IsSome(file_position)
             THEN Some([ timestamp_ms  |-> Unwrap(h) * 3600000 + Unwrap(m) * 60000
                                             + Unwrap(s) * 1000 + Unwrap(ms),
                         file_position |-> Unwrap(file_position) ])
             ELSE None

\* parse_idx: the timestamps of the result (idx_parser.rs:72-164); the lines
\* of other prefixes set the palette and the metadata and push no timestamp
RECURSIVE parse_idx_lines(_, _, _)
parse_idx_lines(lines, k, timestamps) ==
    IF k > Len(lines) THEN timestamps
    ELSE LET line  == lines[k]
             entry == TimestampEntry(line)
         IN  IF line.prefix = "timestamp:" /\ IsSome(entry)
             THEN parse_idx_lines(lines, k + 1, Append(timestamps, Unwrap(entry)))
             ELSE parse_idx_lines(lines, k + 1, timestamps)

parse_idx(content) == [timestamps |-> parse_idx_lines(content, 1, <<>>)]

(***************************************************************************)
(* SpecIdx: VobSubParser::load_from_data called on the text of an .idx     *)
(***************************************************************************)
\* "timestamp: HH:MM:SS:mmm, filepos: HEX"
TimestampLine(time, filepos) ==
    [prefix |-> "timestamp:", time |-> time, comma |-> TRUE, filepos |-> Some(filepos)]
OtherLine(prefix) ==
    [prefix |-> prefix, time |-> <<>>, comma |-> FALSE, filepos |-> None]

\* the lines an .idx text is made of: 00:00:01:000, 00:00:10:000, 00:00:01:500
\* and 00:01:00:000 at file positions 0, 3 and 0x1a; a time of three parts, a
\* time with a letter, a line without "filepos:"; a comment and a size line
IdxLines ==
    { TimestampLine(<< <<0, 0>>, <<0, 0>>, <<0, 1>>, <<0, 0, 0>> >>, <<0>>),
      TimestampLine(<< <<0, 0>>, <<0, 0>>, <<1, 0>>, <<0, 0, 0>> >>, <<3>>),
      TimestampLine(<< <<0, 0>>, <<0, 0>>, <<0, 1>>, <<5, 0, 0>> >>, <<3>>),
      TimestampLine(<< <<0, 0>>, <<0, 1>>, <<0, 0>>, <<0, 0, 0>> >>, <<1, 10>>),
      TimestampLine(<< <<0, 0>>, <<0, 0>>, <<0, 1>> >>, <<0>>),
      TimestampLine(<< <<0, 0>>, <<0, 10>>, <<0, 1>>, <<0, 0, 0>> >>, <<0>>),
      [prefix |-> "timestamp:", comma |-> TRUE, filepos |-> None,
       time |-> << <<0, 0>>, <<0, 0>>, <<0, 2>>, <<0, 0, 0>> >>],
      OtherLine("#"),
      OtherLine("size:") }

\* The most lines of an .idx text.
MaxLines == 3

IdxTexts == UNION {[1..n -> IdxLines] : n \in 0..MaxLines}

IdxInit ==
    /\ idx_content \in IdxTexts
    /\ idx_entries = <<>>
    /\ sub_file \in SubFiles
    /\ idx_data = None
    /\ sub_data = None
    /\ vs_timestamps_ms = <<>>
    /\ packet_cache = EmptyMap
    /\ vob_call = [op |-> "new", arg |-> 0]
    /\ vob_ret = 0

\* VobSubParser::load_from_data(idx_content, sub_data)
\* (vobsub_parser.rs:45-53): dispose, parse_idx, the timestamps copied in the
\* order parse_idx leaves them
LoadFromDataText ==
    LET idx == parse_idx(idx_content)
    IN  /\ idx_data' = Some(idx)
        /\ sub_data' = Some(sub_file)
        /\ vs_timestamps_ms' = TimestampsMs(idx.timestamps)
        /\ packet_cache' = EmptyMap
        /\ vob_call' = [op |-> "load_from_data", arg |-> 0]
        /\ vob_ret' = 0
        /\ UNCHANGED <<idx_entries, sub_file, idx_content>>

IdxLoadData ==
    /\ LoadFromDataText
    /\ UNCHANGED <<pgsVars, histVars, bsVars, rleVars, byteVars, debVars, stepVars>>

IdxDispose ==
    /\ Dispose
    /\ UNCHANGED <<pgsVars, histVars, bsVars, rleVars, byteVars, vobxVars>>

InitIdx == PgsIdle /\ IdxInit /\ BsIdle /\ RleIdle /\ SpuIdle /\ PesIdle /\ DsIdle /\ SupIdle /\ DebIdle /\ StepIdle
NextIdx == IdxLoadData \/ IdxDispose
SpecIdx == InitIdx /\ [][NextIdx]_vars

\* C18: after load_from_data the timestamp list of the decoder is in
\* ascending order of milliseconds, whatever the order of the timestamp lines
\* of the .idx text.
C18_TimestampsAscendingAfterLoad ==
    vob_call.op = "load_from_data" => IsSorted(vs_timestamps_ms)


(***************************************************************************)
(* vobsub/deband.rs: apply_deband.  A u32 is kept as the pair of its 16-bit*)
(* halves <<high, low>>, so that the wrapping products stay in range.      *)
(***************************************************************************)
U32Halves(n) == <<n \div 65536, n % 65536>>

Max(a, b) == IF a > b THEN a ELSE b

\* the 32-bit product of two 16-bit numbers, in halves
Mul16(a, b) ==
    LET p0  == a * (b % 256)
        p1  == a * (b \div 256)
        low == p0 + (p1 % 256) * 256
    IN  << (p1 \div 256 + low \div 65536) % 65536, low % 65536 >>

\* u32::wrapping_mul and u32::wrapping_add
wrapping_mul(x, y) ==
    LET ll == Mul16(x[2], y[2])
    IN  << (ll[1] + Mul16(x[2], y[1])[2] + Mul16(x[1], y[2])[2]) % 65536, ll[2] >>
wrapping_add(x, y) ==
    LET low == x[2] + y[2]
    IN  << (x[1] + y[1] + low \div 65536) % 65536, low % 65536 >>

\* sample_offset (deband.rs:79-91): 0x9E3779B9, 0x85EBCA6B, 0xC2B2AE35
sample_offset(seed, x, y, range) ==
    LET hash == wrapping_add(
                    wrapping_add(wrapping_mul(U32Halves(seed), <<40503, 31161>>),
                                 wrapping_mul(U32Halves(x), <<34283, 51819>>)),
                    wrapping_mul(U32Halves(y), <<49842, 44597>>))
        ox == (hash[2] % (range * 2 + 1)) - range
        oy == (hash[1] % (range * 2 + 1)) - range
    IN  [ox |-> Max(ox, 1), oy |-> Max(oy, 1)]

\* read_pixel (deband.rs:66-69), idx counted from 0
read_pixel(rgba, idx) == SubSeq(rgba, idx + 1, idx + 4)

\* i32::clamp
clamp(v, lo, hi) == IF v < lo THEN lo ELSE IF v > hi THEN hi ELSE v

\* sample_cross (deband.rs:95-118): up, down, left, right
sample_cross(rgba, width, height, x, y, ox, oy) ==
    LET sample_at(dx, dy) ==
            LET nx == clamp(x + dx, 0, width - 1)
                ny == clamp(y + dy, 0, height - 1)
            IN  read_pixel(rgba, (ny * width + nx) * 4)
    IN  << sample_at(0, 0 - oy), sample_at(0, oy), sample_at(0 - ox, 0), sample_at(ox, 0) >>

Magnitude(v) == IF v < 0 THEN 0 - v ELSE v

\* compute_factor (deband.rs:155-169) on the differences avg_dif * 4,
\* max_dif, mid_v * 2 and mid_h * 2 and a whole threshold > 0: each of the
\* four terms saturate(3 * (1 - dif / t)) is 1 when 3 * dif < 2 * t and 0 when
\* dif >= t (t2 = 0.75 * t for the two midpoints).  The factor is 1 when every
\* term is 1, 0 when one term is 0; any other product gives "between": its
\* tenth root, a factor between 0 and 1, is not computed.
compute_factor(avg_dif4, max_dif, mid_v2, mid_h2, thresh) ==
    IF avg_dif4 >= 4 * thresh \/ max_dif >= thresh
          \/ 2 * mid_v2 >= 3 * thresh \/ 2 * mid_h2 >= 3 * thresh
    THEN "0"
    ELSE IF 3 * avg_dif4 < 8 * thresh /\ 3 * max_dif < 2 * thresh
               /\ mid_v2 < thresh /\ mid_h2 < thresh
    THEN "1"
    ELSE "between"

\* blend_deband (deband.rs:121-152) for one of the channels R, G, B: the
\* values the channel can take.  blended = s + (avg - s) * factor, cut to its
\* whole part: s for the factor 0, the whole part of avg for the factor 1, a
\* value from the one to the other for a factor between.
blend_channel(s, r, threshold) ==
    LET sum == r[1] + r[2] + r[3] + r[4]
        dif == [k \in 1..4 |-> Magnitude(r[k] - s)]
        max_dif == Max(Max(dif[1], dif[2]), Max(dif[3], dif[4]))
        factor  == compute_factor(Magnitude(sum - 4 * s), max_dif,
                                  Magnitude(r[1] + r[2] - 2 * s),
                                  Magnitude(r[3] + r[4] - 2 * s), threshold)
        avg == sum \div 4
    IN  CASE factor = "0" -> {s}
          [] factor = "1" -> {avg}
          [] OTHER -> Min(s, avg)..Max(s, avg)

\* the values byte k (from 0) of the output can take (deband.rs:41-61): a
\* byte behind the width * height pixels stays 0, a fully transparent pixel
\* and every alpha are copied
deband_byte(rgba, width, height, config, k) ==
    IF k >= width * height * 4 THEN {0}
    ELSE LET x   == (k \div 4) % width
             y   == (k \div 4) \div width
             c   == k % 4
             idx == (y * width + x) * 4
             src == read_pixel(rgba, idx)
         IN  IF src[4] = 0 \/ c = 3 THEN {src[c + 1]}
             ELSE LET offset == sample_offset(config.seed, x, y, config.range)
                      refs   == sample_cross(rgba, width, height, x, y, offset.ox, offset.oy)
                  IN  blend_channel(src[c + 1], [n \in 1..4 |-> refs[n][c + 1]],
                                    config.threshold)

\* the outputs of n bytes
RECURSIVE deband_output(_, _, _, _, _)
deband_output(rgba, width, height, config, n) ==
    IF n = 0 THEN {<<>>}
    ELSE { Append(head, v) : head \in deband_output(rgba, width, height, config, n - 1),
                             v \in deband_byte(rgba, width, height, config, n - 1) }

\* apply_deband (deband.rs:33-63): the images it can return (one image,
\* unless a blend factor is between 0 and 1)
apply_deband(rgba, width, height, config) ==
    IF ~config.enabled \/ width = 0 \/ height = 0 THEN {rgba}
    ELSE deband_output(rgba, width, height, config, Len(rgba))

(***************************************************************************)
(* SpecDeb: the deband settings of a VobSubParser and apply_deband run     *)
(* with them on an RGBA image                                              *)
(***************************************************************************)
\* pixels: reds 10, 50 and 155 apart, and a fully transparent one
DebPixels ==
    { <<100, 0, 0, 255>>, <<110, 0, 0, 255>>, <<150, 0, 0, 255>>,
      <<255, 0, 0, 255>>, <<255, 0, 0, 0>> }

\* images of 0 x 0, 1 x 1, 2 x 1 and 1 x 2 pixels, and the 2 x 1 image of
\* test_disabled_passthrough
DebImages ==
    { [rgba |-> <<>>, width |-> 0, height |-> 0],
      [rgba |-> <<255, 0, 0, 255, 0, 255, 0, 255>>, width |-> 2, height |-> 1] }
    \cup { [rgba |-> p, width |-> 1, height |-> 1] : p \in DebPixels }
    \cup { [rgba |-> p \o q, width |-> w, height |-> 3 - w] :
              p \in DebPixels, q \in DebPixels, w \in {1, 2} }

\* the arguments the host gives to the setters
DebThresholds == {32, 64, 300}
DebRanges == {0, 15, 100}

\* VobSubParser::new (vobsub_parser.rs:33-41), and the image of the next frame
DebInit ==
    /\ deband_config = DebandConfigDefault
    /\ \E image \in DebImages :
          /\ deb_rgba = image.rgba
          /\ deb_width = image.width
          /\ deb_height = image.height
    /\ deb_call = [op |-> "new", arg |-> 0]
    /\ deb_ret = None

\* set_deband_enabled (vobsub_parser.rs:271-273)
SetDebandEnabled(enabled) ==
    /\ deband_config' = [deband_config EXCEPT !.enabled = enabled]
    /\ deb_call' = [op |-> "set_deband_enabled", arg |-> IF enabled THEN 1 ELSE 0]
    /\ deb_ret' = None
    /\ UNCHANGED <<deb_rgba, deb_width, deb_height>>

\* set_deband_threshold (vobsub_parser.rs:277-279)
SetDebandThreshold(threshold) ==
    /\ deband_config' = [deband_config EXCEPT !.threshold = clamp(threshold, 0, 255)]
    /\ deb_call' = [op |-> "set_deband_threshold", arg |-> threshold]
    /\ deb_ret' = None
    /\ UNCHANGED <<deb_rgba, deb_width, deb_height>>

\* set_deband_range (vobsub_parser.rs:283-285)
SetDebandRange(range) ==
    /\ deband_config' = [deband_config EXCEPT !.range = clamp(range, 1, 64)]
    /\ deb_call' = [op |-> "set_deband_range", arg |-> range]
    /\ deb_ret' = None
    /\ UNCHANGED <<deb_rgba, deb_width, deb_height>>

\* a call apply_deband(&rgba, width, height, &deband_config)
ApplyDeband ==
    /\ deb_ret = None
    /\ \E output \in apply_deband(deb_rgba, deb_width, deb_height, deband_config) :
          deb_ret' = Some(output)
    /\ deb_call' = [op |-> "apply_deband", arg |-> 0]
    /\ UNCHANGED <<deband_config, deb_rgba, deb_width, deb_height>>

DebSetEnabled ==
    /\ \E enabled \in BOOLEAN : SetDebandEnabled(enabled)
    /\ UNCHANGED <<pgsVars, histVars, vobVars, bsVars, rleVars, byteVars, idxVars, stepVars>>
DebSetThreshold ==
    /\ \E threshold \in DebThresholds : SetDebandThreshold(threshold)
    /\ UNCHANGED <<pgsVars, histVars, vobVars, bsVars, rleVars, byteVars, idxVars, stepVars>>
DebSetRange ==
    /\ \E range \in DebRanges : SetDebandRange(range)
    /\ UNCHANGED <<pgsVars, histVars, vobVars, bsVars, rleVars, byteVars, idxVars, stepVars>>
DebApply ==
    /\ ApplyDeband
    /\ UNCHANGED <<pgsVars, histVars, vobVars, bsVars, rleVars, byteVars, idxVars, stepVars>>

InitDeb == PgsIdle /\ VobIdle /\ BsIdle /\ RleIdle /\ SpuIdle /\ PesIdle /\ DsIdle /\ SupIdle /\ IdxIdle /\ DebInit /\ StepIdle
NextDeb == DebSetEnabled \/ DebSetThreshold \/ DebSetRange \/ DebApply
SpecDeb == InitDeb /\ [][NextDeb]_vars

\* C20: the deband configuration of a new decoder has debanding disabled,
\* with threshold 64 and range 15, and apply_deband run with that
\* configuration returns its input unchanged.
C20_DefaultDisabledPassThrough ==
    /\ deb_call.op = "new" =>
          /\ ~deband_config.enabled
          /\ deband_config.threshold = 64
          /\ deband_config.range = 15
    /\ (IsSome(deb_ret) /\ deband_config = DebandConfigDefault) =>
          Unwrap(deb_ret) = deb_rgba


(***************************************************************************)
(* Claims on the context replayed for a render                             *)
(***************************************************************************)
\* the object segments of display sets from..=to, in the order received
RECURSIVE ReceivedObjects(_, _, _)
ReceivedObjects(sets, from, to) ==
    IF from > to THEN <<>>
    ELSE sets[from + 1].objects \o ReceivedObjects(sets, from + 1, to)

\* the positions in received of the first-in-sequence segments of an id
FirstsOf(received, id) ==
    {n \in 1..Len(received) : received[n].id = id /\ received[n].sequence_flag >= 128}

\* the fragments of an id: its last first-in-sequence segment and the
\* segments of the id received after it
FragmentsOf(received, id) ==
    LET last == CHOOSE n \in FirstsOf(received, id) : \A m \in FirstsOf(received, id) : m <= n
        OfId(obj) == obj.id = id
    IN  SelectSeq(SubSeq(received, last, Len(received)), OfId)

\* the payloads of the fragments one after the other
RECURSIVE Payloads(_)
Payloads(fragments) ==
    IF fragments = <<>> THEN <<>> ELSE Head(fragments).data \o Payloads(Tail(fragments))

\* the context replayed by the last render_at_index
ReplayedContext ==
    build_context(display_sets, Unwrap(last_boundary_index), pgs_call.arg)

\* C21: in the context replayed over display sets boundary..=i the fragment
\* list of an object id starts at the last first-in-sequence segment of that
\* id and holds the segments of the id received after it; an id with no
\* first-in-sequence segment has no fragments; the assembled object is the
\* payloads of the fragments in receipt order, with id, version, width and
\* height of the first fragment.
C21_FragmentsResetOnFirstInSequence ==
    (IsRender /\ ValidIndex(pgs_call.arg)) =>
        LET received == ReceivedObjects(display_sets, Unwrap(last_boundary_index),
                                        pgs_call.arg)
            context  == ReplayedContext
            ids      == {id \in 0..3 : FirstsOf(received, id) # {}}
        IN  /\ DOMAIN context.object_parts = ids
            /\ DOMAIN context.objects = ids
            /\ \A id \in ids :
                  LET fragments == FragmentsOf(received, id)
                  IN  /\ context.object_parts[id] = fragments
                      /\ context.objects[id] =
                            [ id      |-> fragments[1].id,
                              version |-> fragments[1].version,
                              width   |-> fragments[1].width,
                              height  |-> fragments[1].height,
                              data    |-> Payloads(fragments) ]

\* Index 2 rendered after an epoch start that defines object 1 and the first
\* fragment of object 2, a second definition of object 1, and the
\* continuation of object 2: object 1 holds its second definition alone,
\* object 2 both fragments.
C21_Witness ==
    /\ IsRender
    /\ pgs_call.arg = 2
    /\ Len(display_sets) = 3
    /\ last_boundary_index = Some(0)
    /\ Len(ReceivedObjects(display_sets, 0, 2)) = 4
    /\ Len(ReplayedContext.object_parts[1]) = 1
    /\ ReplayedContext.objects[1].data = <<2>>
    /\ Len(ReplayedContext.object_parts[2]) = 2
    /\ ReplayedContext.objects[2].data = <<0, 130, 1>>


\* the palette segments of display sets from..=to, in stream order
RECURSIVE ReceivedPalettes(_, _, _)
ReceivedPalettes(sets, from, to) ==
    IF from > to THEN <<>>
    ELSE sets[from + 1].palettes \o ReceivedPalettes(sets, from + 1, to)

\* the windows of the window segments of a display set, in order
RECURSIVE WindowsOf(_)
WindowsOf(segments) ==
    IF segments = <<>> THEN <<>> ELSE Head(segments).windows \o WindowsOf(Tail(segments))

\* the windows defined in display sets from..=to, in stream order
RECURSIVE ReceivedWindows(_, _, _)
ReceivedWindows(sets, from, to) ==
    IF from > to THEN <<>>
    ELSE WindowsOf(sets[from + 1].windows) \o ReceivedWindows(sets, from + 1, to)

\* the last definition with the id in a sequence of definitions that holds one
LastOfId(defs, id) ==
    defs[CHOOSE n \in 1..Len(defs) :
            /\ defs[n].id = id
            /\ \A m \in (n + 1)..Len(defs) : defs[m].id # id]

\* the map id -> last definition with that id equals stored
IsLastWriterWins(stored, defs) ==
    /\ DOMAIN stored = {defs[n].id : n \in 1..Len(defs)}
    /\ \A id \in DOMAIN stored : stored[id] = LastOfId(defs, id)

\* C22: in the context replayed for index i the palette, and the window,
\* stored under an id is the last definition with that id among display sets
\* boundary(i)..=i in stream order; an id defined only before boundary(i) is
\* not in the context.
C22_PalettesAndWindowsLastWriterWins ==
    (IsRender /\ ValidIndex(pgs_call.arg)) =>
        LET boundary == EpochBoundary(display_sets, pgs_call.arg)
        IN  /\ last_boundary_index = Some(boundary)
            /\ IsLastWriterWins(ReplayedContext.palettes,
                                ReceivedPalettes(display_sets, boundary, pgs_call.arg))
            /\ IsLastWriterWins(ReplayedContext.windows,
                                ReceivedWindows(display_sets, boundary, pgs_call.arg))

\* Index 2 rendered; display set 0 defines palette 0 and window 0, display set
\* 1 is an acquisition point that defines palette 1 and window 1, display set
\* 2 defines palette 0 and windows 0 and 1 again: the context holds the
\* definitions of display set 2, and palette 1 of display set 1.
C22_Witness ==
    /\ IsRender
    /\ pgs_call.arg = 2
    /\ Len(display_sets) = 3
    /\ last_boundary_index = Some(1)
    /\ Len(display_sets[1].palettes) = 1
    /\ display_sets[1].palettes[1].id = 0
    /\ display_sets[1].palettes[1].version = 0
    /\ DOMAIN ReplayedContext.palettes = {0, 1}
    /\ ReplayedContext.palettes[0].version = 1
    /\ ReplayedContext.windows[1].height = 540
    /\ display_sets[2].windows[1].windows[1].height = 1080


(***************************************************************************)
(* SpecHdr: DisplaySet::parse called on display sets whose segment headers *)
(* carry different PTS and DTS                                             *)
(***************************************************************************)
\* a complete segment whose header carries the stamp <<pts, dts>>
StampedSegment(stamp, segment_type) ==
    <<80, 71>> \o U32Bytes(stamp[1]) \o U32Bytes(stamp[2]) \o <<segment_type>>
        \o U16Bytes(Len(BodyOf(segment_type))) \o BodyOf(segment_type)

Stamps == { <<0, 7>>, <<90000, 8>>, <<180000, 9>> }

\* The most segments in front of the end segment.
MaxSegments == 2

\* the segments in front of the end segment: palette, composition, window
HeaderTypes == {20, 22, 23}

RECURSIVE StampedSegments(_, _, _)
StampedSegments(types, stamps, k) ==
    IF k > Len(types) THEN <<>>
    ELSE StampedSegment(stamps[k], types[k]) \o StampedSegments(types, stamps, k + 1)

\* display sets of up to MaxSegments segments and an end segment
StampedDisplaySets ==
    UNION { { StampedSegments(types, stamps, 1) \o StampedSegment(last, 128) :
                 types \in [1..n -> HeaderTypes], stamps \in [1..n -> Stamps], last \in Stamps } :
            n \in 1..MaxSegments }

HdrInit ==
    /\ build \in Builds
    /\ ds_data \in StampedDisplaySets
    /\ ds_sound = <<>>
    /\ ds_ret = None

HdrParse ==
    /\ DisplaySetParse
    /\ UNCHANGED <<pgsVars, histVars, vobVars, bsVars, rleVars, spuVars, pesVars, supVars, vobxVars>>

InitHdr == PgsIdle /\ VobIdle /\ BsIdle /\ RleIdle /\ SpuIdle /\ PesIdle /\ HdrInit /\ SupIdle /\ VobxIdle
NextHdr == HdrParse
SpecHdr == InitHdr /\ [][NextHdr]_vars

\* the segment headers of a display set, found by the declared sizes
RECURSIVE HeadersOf(_, _)
HeadersOf(data, pos) ==
    IF pos + 13 > Len(data) THEN <<>>
    ELSE << [ pts  |-> U32(At(data, pos + 2), At(data, pos + 3), At(data, pos + 4), At(data, pos + 5)),
              dts  |-> U32(At(data, pos + 6), At(data, pos + 7), At(data, pos + 8), At(data, pos + 9)),
              segment_type |-> At(data, pos + 10) ] >>
         \o HeadersOf(data, pos + 13 + U16(At(data, pos + 11), At(data, pos + 12)))

\* C23: the pts and dts of a parsed display set are those of the header of a
\* presentation-composition segment of it when it has one, and otherwise
\* those of its first segment header.
C23_StampOfCompositionOrFirstHeader ==
    (IsSome(ds_ret) /\ ~Unwrap(ds_ret).panicked /\ IsSome(Unwrap(ds_ret).ret)) =>
        LET display_set  == Unwrap(Unwrap(ds_ret).ret).display_set
            headers      == HeadersOf(ds_data, 0)
            compositions == {k \in 1..Len(headers) : headers[k].segment_type = 22}
            Stamped(k)   == display_set.pts = headers[k].pts /\ display_set.dts = headers[k].dts
        IN  IF compositions # {} THEN \E k \in compositions : Stamped(k)
            ELSE Stamped(1)


(***************************************************************************)
(* SpecCur: the loop of DisplaySet::parse, one segment per step            *)
(***************************************************************************)
\* one turn of the loop of DisplaySet::parse(data, true)
\* (display_set.rs:49-120) with the reader at pos: where the loop stands
\* after it, the position of the reader, the display set, and the segment
\* handled (payload start, declared size), if one was
DisplaySetStep(data, pos, display_set, b) ==
    LET stop(pc) == [pc |-> pc, pos |-> pos, display_set |-> display_set, seg |-> None]
    IN  IF pos + 13 > Len(data) \/ U16(At(data, pos), At(data, pos + 1)) # 20551
        THEN stop("none")
        ELSE
        LET pts == U32(At(data, pos + 2), At(data, pos + 3), At(data, pos + 4), At(data, pos + 5))
            dts == U32(At(data, pos + 6), At(data, pos + 7), At(data, pos + 8), At(data, pos + 9))
            stamped == IF display_set.pts = 0
                       THEN [display_set EXCEPT !.pts = pts, !.dts = dts] ELSE display_set
            segment_type == At(data, pos + 10)
            segment_size == U16(At(data, pos + 11), At(data, pos + 12))
            start_pos    == pos + 13
        IN  IF Len(data) - start_pos < segment_size THEN stop("none")
            ELSE IF segment_type = 128
            THEN [pc |-> "done", pos |-> start_pos, display_set |-> stamped, seg |-> None]
            ELSE
            LET parsed   == segment_parse(data, start_pos, segment_type, segment_size, b)
                kept     == IF IsSome(parsed.segment)
                            THEN WithSegment(stamped, segment_type, Unwrap(parsed.segment),
                                             pts, dts)
                            ELSE stamped
                consumed == parsed.pos - start_pos
                next_pos == IF consumed < segment_size THEN start_pos + segment_size
                            ELSE parsed.pos
            IN  IF parsed.panicked THEN stop("panicked")
                ELSE [ pc |-> "loop", pos |-> next_pos, display_set |-> kept,
                       seg |-> Some([ start_pos |-> start_pos,
                                      segment_size |-> segment_size,
                                      segment_type |-> segment_type ]) ]

\* a segment that declares pad bytes more than its fields take, and holds them
PaddedSegment(segment_type, pad) ==
    SegmentHeader(DsPts, segment_type, Len(BodyOf(segment_type)) + pad)
        \o BodyOf(segment_type) \o [n \in 1..pad |-> 0]

\* The most bytes a segment holds behind its fields.
MaxPad == 3

\* the display set with segment k padded
RECURSIVE PaddedDisplaySet(_, _, _)
PaddedDisplaySet(k, pad, from) ==
    IF from > Len(SegmentOrder) THEN <<>>
    ELSE PaddedSegment(SegmentOrder[from], IF from = k THEN pad ELSE 0)
             \o PaddedDisplaySet(k, pad, from + 1)

\* display sets with one segment that declares less than its fields take, or
\* more
CurInputs ==
    UNION { { DisplaySetBytes(k, declared, 1) :
                 declared \in {0, 1, FieldsOf(SegmentOrder[k]) - 1} } : k \in 1..4 }
    \cup { PaddedDisplaySet(k, pad, 1) : k \in 1..4, pad \in 0..MaxPad }

CurInit ==
    /\ build \in Builds
    /\ ds_data \in CurInputs
    /\ ds_sound = <<>>
    /\ ds_ret = None
    /\ cur_pos = 0
    /\ cur_set = NewDisplaySet
    /\ cur_seg = None
    /\ cur_pc = "loop"

\* the next turn of the loop
CurSegment ==
    /\ cur_pc = "loop"
    /\ LET step == DisplaySetStep(ds_data, cur_pos, cur_set, build)
       IN  /\ cur_pc' = step.pc
           /\ cur_pos' = step.pos
           /\ cur_set' = step.display_set
           /\ cur_seg' = step.seg
    /\ UNCHANGED dsVars

CurStep ==
    /\ CurSegment
    /\ UNCHANGED <<pgsVars, histVars, vobVars, bsVars, rleVars, spuVars, pesVars, supVars,
                   idxVars, debVars, scanVars, rcVars, facVars>>

InitCur == PgsIdle /\ VobIdle /\ BsIdle /\ RleIdle /\ SpuIdle /\ PesIdle /\ SupIdle
              /\ IdxIdle /\ DebIdle /\ ScanIdle /\ RcIdle /\ FacIdle /\ CurInit
NextCur == CurStep
SpecCur == InitCur /\ [][NextCur]_vars

\* the loop step by step ends as DisplaySet::parse does
CurAgreesWithParse ==
    LET whole == display_set_parse(ds_data, build)
    IN  /\ cur_pc = "panicked" => whole.panicked
        /\ cur_pc = "none" => (~whole.panicked /\ whole.ret = None)
        /\ cur_pc = "done" =>
              whole.ret = Some([display_set |-> cur_set, consumed |-> cur_pos])

\* C24: after the loop of DisplaySet::parse has handled a segment other than
\* the end segment, the reader stands at the payload start of that segment
\* plus its declared size.
C24_CursorAtDeclaredBoundary ==
    (cur_pc = "loop" /\ IsSome(cur_seg)) =>
        cur_pos = Unwrap(cur_seg).start_pos + Unwrap(cur_seg).segment_size


(***************************************************************************)
(* SpecScan: the loop of PgsParser::parse, one turn per step               *)
(***************************************************************************)
\* one turn of `while offset < len` (parser.rs:68-92): where the loop stands
\* after it, the offset and the display sets pushed
PgsParseStep(data, offset, sets, b) ==
    IF offset >= Len(data) THEN [pc |-> "done", offset |-> offset, sets |-> sets]
    ELSE
    LET parsed == display_set_parse(Slice(data, offset, Len(data)), b)
    IN  IF parsed.panicked THEN [pc |-> "panicked", offset |-> offset, sets |-> sets]
        ELSE IF IsSome(parsed.ret)
        THEN [ pc |-> "loop", offset |-> offset + Unwrap(parsed.ret).consumed,
               sets |-> Append(sets, Unwrap(parsed.ret).display_set) ]
        ELSE LET found == memchr_0x50(data, offset + 1)
             IN  IF ~IsSome(found) THEN [pc |-> "done", offset |-> offset + 1, sets |-> sets]
                 ELSE LET candidate == offset + 1 + Unwrap(found)
                      IN  IF candidate + 1 < Len(data) /\ At(data, candidate + 1) = 71
                          THEN [pc |-> "loop", offset |-> candidate, sets |-> sets]
                          ELSE [pc |-> "loop", offset |-> candidate + 1, sets |-> sets]

\* The longest buffer of loose bytes.
MaxLoose == 3

\* buffers: loose bytes (0x00, 0x47, 0x50), a display set, a display set cut
\* short, a display set behind loose bytes, two display sets with bytes
\* between them, a display set whose object segment declares less than its
\* fields take
ScanBuffers ==
    LET first  == ValidDisplaySet(90000, 1)
        second == ValidDisplaySet(180000, 1)
        loose  == UNION {[1..n -> {0, 71, 80}] : n \in 0..MaxLoose}
    IN  loose
        \cup { bytes \o first : bytes \in loose }
        \cup { SubSeq(first, 1, n) : n \in {2, 13, 40, Len(first) - 1} }
        \cup { first \o between \o second : between \in Between(second) \cup {<<>>} }
        \cup { DisplaySetBytes(4, declared, 1) : declared \in {0, 10} }

ScanInit ==
    /\ build \in Builds
    /\ ds_data = <<>>
    /\ ds_sound = <<>>
    /\ ds_ret = None
    /\ scan_data \in ScanBuffers
    /\ scan_offset = 0
    /\ scan_sets = <<>>
    /\ scan_pc = "loop"

\* the next turn of the loop
ScanTurn ==
    /\ scan_pc = "loop"
    /\ \E step \in {PgsParseStep(scan_data, scan_offset, scan_sets, build)} :
           /\ scan_pc' = step.pc
           /\ scan_offset' = step.offset
           /\ scan_sets' = step.sets
    /\ UNCHANGED scan_data

ScanIteration ==
    /\ ScanTurn
    /\ UNCHANGED <<pgsVars, histVars, vobVars, bsVars, rleVars, byteVars,
                   idxVars, debVars, curVars, rcVars, facVars>>

InitScan == PgsIdle /\ VobIdle /\ BsIdle /\ RleIdle /\ SpuIdle /\ PesIdle /\ SupIdle
               /\ IdxIdle /\ DebIdle /\ CurIdle /\ RcIdle /\ FacIdle /\ ScanInit
NextScan == ScanIteration
SpecScan == InitScan /\ [][NextScan]_vars
\* the loop turn by turn ends as PgsParser::parse does
ScanAgreesWithParse ==
    LET whole == pgs_parse_bytes(scan_data, build)
    IN  /\ scan_pc = "panicked" => (whole.panicked /\ whole.display_sets = scan_sets)
        /\ scan_pc = "done" => (~whole.panicked /\ whole.display_sets = scan_sets)

\* no byte 0x50 at or behind the offset
NoMagicByteFrom(data, offset) ==
    \A k \in offset..(Len(data) - 1) : At(data, k) # 80

\* C25: PgsParser::parse terminates on every buffer: it is in its loop or has
\* left it, never aborted; every turn of the loop moves the offset forward,
\* by the consumed length after a display set was parsed and by at least one
\* byte on recovery, or leaves the loop; the offset never passes the length
\* of the buffer; and the loop is left when the offset has reached the end of
\* the buffer or no byte 0x50 is left.
C25_ScanTerminates ==
    /\ [](scan_pc \in {"loop", "done"})
    /\ [](scan_offset <= Len(scan_data))
    /\ [][ \/ /\ scan_offset' > scan_offset
              /\ Len(scan_sets') > Len(scan_sets) =>
                    scan_offset' - scan_offset
                       = display_set_parse(Slice(scan_data, scan_offset, Len(scan_data)),
                                           build).ret[1].consumed
           \/ /\ scan_offset' = scan_offset
              /\ scan_pc' = "done" ]_vars
    /\ [](scan_pc = "done" =>
             \/ scan_offset = Len(scan_data)
             \/ NoMagicByteFrom(scan_data, scan_offset))

(***************************************************************************)
(* SpecRc: read_rle_code called code after code on a field                 *)
(***************************************************************************)
\* The longest field.
MaxFieldLen == 2

\* bytes whose nibbles start codes of every length
RcBytes == {0, 3, 4, 15, 16, 63, 64, 69, 255}

RcInit ==
    /\ rc_data \in UNION {[1..n -> RcBytes] : n \in 0..MaxFieldLen}
    /\ rc_pos \in (0..Len(rc_data)) \X {0, 1}
    /\ rc_ret = None

\* one call of read_rle_code at the position the last call returned; past
\* the end of the field no further call is made
ReadRleCode ==
    /\ rc_pos[1] <= Len(rc_data)
    /\ LET code == read_rle_code(rc_data, rc_pos[1], rc_pos[2])
       IN  /\ rc_ret' = Some(code)
           /\ rc_pos' = <<code.bp, code.np>>
    /\ UNCHANGED rc_data

RcRead ==
    /\ ReadRleCode
    /\ UNCHANGED <<pgsVars, histVars, vobVars, bsVars, rleVars, byteVars,
                   idxVars, debVars, curVars, scanVars, facVars>>

InitRc == PgsIdle /\ VobIdle /\ BsIdle /\ RleIdle /\ SpuIdle /\ PesIdle /\ DsIdle
             /\ SupIdle /\ IdxIdle /\ DebIdle /\ CurIdle /\ ScanIdle /\ FacIdle /\ RcInit
NextRc == RcRead
SpecRc == InitRc /\ [][NextRc]_vars

\* the n-th nibble of the field, high nibble first; 0 past its end
NibbleAt(data, n) ==
    IF n \div 2 >= Len(data) THEN 0
    ELSE IF n % 2 = 0 THEN At(data, n \div 2) \div 16 ELSE At(data, n \div 2) % 16

NibbleIndex(pos) == 2 * pos[1] + pos[2]

\* the value of the k nibbles from the n-th on
RECURSIVE NibblesValue(_, _, _)
NibblesValue(data, n, k) ==
    IF k = 0 THEN 0 ELSE NibblesValue(data, n, k - 1) * 16 + NibbleAt(data, n + k - 1)

\* the number of nibbles of the code that starts at the n-th nibble
NibblesOfCode(data, n) ==
    IF NibblesValue(data, n, 1) >= 4 THEN 1
    ELSE IF NibblesValue(data, n, 2) >= 16 THEN 2
    ELSE IF NibblesValue(data, n, 3) >= 64 THEN 3
    ELSE 4

\* C26: read_rle_code resolves one code of 1 to 4 nibbles: a first nibble
\* >= 0x4 is a 4-bit code, else an 8-bit value >= 0x10 an 8-bit code, else a
\* 12-bit value >= 0x040 a 12-bit code, else a 16-bit code; the run is the
\* value >> 2, the colour the value & 3, and the position moves forward by the
\* nibbles read.  On the byte 0x45 the first call returns run 1 colour 0 and
\* the second run 1 colour 1.
C26_CodeOfOneToFourNibbles ==
    [][ LET n     == NibbleIndex(rc_pos)
            k     == NibblesOfCode(rc_data, n)
            value == NibblesValue(rc_data, n, k)
            code  == Unwrap(rc_ret')
        IN  /\ IsSome(rc_ret')
            /\ code.run_length = value \div 4
            /\ code.color_idx = value % 4
            /\ NibbleIndex(rc_pos') = n + k
            /\ rc_pos'[2] \in {0, 1}
            /\ rc_pos' = <<code.bp, code.np>>
            /\ (rc_data = <<69>> /\ rc_pos = <<0, 0>>) =>
                  (code.run_length = 1 /\ code.color_idx = 0 /\ rc_pos' = <<0, 1>>)
            /\ (rc_data = <<69>> /\ rc_pos = <<0, 1>>) =>
                  (code.run_length = 1 /\ code.color_idx = 1 /\ rc_pos' = <<1, 0>>)
      ]_<<rc_pos, rc_ret>>

\* a code of each length has been read, the last one a 16-bit code
C26_Witness ==
    /\ rc_data = <<3, 255>>
    /\ rc_pos = <<2, 0>>
    /\ IsSome(rc_ret)
    /\ Unwrap(rc_ret).run_length = 255
    /\ Unwrap(rc_ret).color_idx = 3


(***************************************************************************)
(* SpecFld: decode_vobsub_rle on packets whose fields end early            *)
(***************************************************************************)
\* bytes of the fields: 0x00 (end of line), 0x45 (run 1 colour 0, run 1
\* colour 1), 0x96 (run 2 colour 1, run 1 colour 2), 0x1D (run 7 colour 1),
\* 0x0F (a code cut short unless a byte follows)
FieldBytes == {0, 69, 150, 29, 15}
Fields == UNION {[1..n -> FieldBytes] : n \in 0..MaxFieldLen}
FieldWidth == 3
FieldHeights == {3, 4}

FieldPacket(even, odd, height) ==
    [ timestamp_ms |-> SpuPts, duration_ms |-> 5000,
      x |-> 0, y |-> 0, width |-> FieldWidth, height |-> height,
      color_indices |-> <<0, 1, 2, 3>>, alpha_values |-> <<1, 5, 10, 15>>,
      even_field_data |-> even, odd_field_data |-> odd ]

FldInit ==
    /\ spu_data = <<>>
    /\ spu_pc = "done"
    /\ spu_loc = <<>>
    /\ \E even \in Fields, odd \in Fields, height \in FieldHeights :
          spu_ret = Some(FieldPacket(even, odd, height))
    /\ spu_frame = None

InitFld == PgsIdle /\ VobIdle /\ BsIdle /\ RleIdle /\ FldInit /\ PesIdle /\ DsIdle /\ SupIdle /\ VobxIdle
NextFld ==
    SpuRender /\ UNCHANGED <<pgsVars, histVars, vobVars, bsVars, rleVars, pesVars, dsVars, supVars, vobxVars>>
SpecFld == InitFld /\ [][NextFld]_vars

\* the code at (bp, np) needs a nibble the field does not hold
CodeCutShort(field, bp, np) ==
    2 * bp + np + NibblesOfCode(field, 2 * bp + np) > 2 * Len(field)

\* where the codes of one line stand when the line is left: the column
\* reached, the position in the field, and whether the field ran out before
\* the line was full
RECURSIVE LineWalk(_, _, _, _, _)
LineWalk(field, width, x, bp, np) ==
    IF x >= width THEN [x |-> x, bp |-> bp, np |-> np, exhausted |-> FALSE]
    ELSE IF bp >= Len(field) \/ CodeCutShort(field, bp, np)
    THEN [x |-> x, bp |-> Max(bp, Len(field)), np |-> 0, exhausted |-> TRUE]
    ELSE LET code == read_rle_code(field, bp, np)
         IN  IF code.run_length = 0
             THEN [x |-> x, bp |-> code.bp, np |-> code.np, exhausted |-> FALSE]
             ELSE LineWalk(field, width, Min(x + code.run_length, width), code.bp, code.np)

\* the walks of the lines start_line, start_line + 2, ... up to line y
RECURSIVE FieldWalk(_, _, _, _)
FieldWalk(field, width, start_line, y) ==
    LET before == IF y = start_line THEN [x |-> 0, bp |-> 0, np |-> 0, exhausted |-> FALSE]
                  ELSE FieldWalk(field, width, start_line, y - 2)
        bp     == IF before.np # 0 THEN before.bp + 1 ELSE before.bp
    IN  IF before.exhausted THEN [before EXCEPT !.x = 0]
        ELSE LineWalk(field, width, 0, bp, 0)

\* the pixels of line y from column x on are all of the given colour
FilledFrom(rgba, width, y, x, color) ==
    \A col \in x..(width - 1) : rgba[y * width + col + 1] = color

\* C27: when the payload of a field runs out in the middle of a line, the
\* rest of that line and every later line of the field hold entry 0 of the
\* four colours; after both fields every pixel of the width x height bitmap
\* has been written; the even field writes the lines 0, 2, 4, ... only and
\* the odd field the lines 1, 3, 5, ... only.
C27_ExhaustedFieldFilledWithEntryZero ==
    IsSome(spu_frame) =>
        LET packet == Unwrap(spu_ret)
            rgba   == Unwrap(spu_frame)
            width  == packet.width
            height == packet.height
            colors == PacketColors(packet, DefaultVobSubPalette)
            blank  == [k \in 1..(width * height) |-> <<0, 0, 0, 0>>]
            field(y) == IF y % 2 = 0 THEN packet.even_field_data ELSE packet.odd_field_data
            alone(y) == decode_field(field(y), blank, width, height, y % 2, colors)
            other(y) == decode_field(field(y + 1), blank, width, height, (y + 1) % 2, colors)
        IN  /\ Len(rgba) = width * height
            /\ \A y \in 0..(height - 1) :
                  LET walk == FieldWalk(field(y), width, y % 2, y)
                  IN  /\ walk.exhausted => FilledFrom(rgba, width, y, walk.x, colors[1])
                      /\ \A col \in 0..(width - 1) : rgba[y * width + col + 1] # <<0, 0, 0, 0>>
                      /\ FrameLine(rgba, width, y) = FrameLine(alone(y), width, y)
                      /\ FrameLine(other(y), width, y) = FrameLine(blank, width, y)

\* the even field ran out in the middle of line 0 behind two pixels of its
\* codes, and the frame of four lines was decoded
C27_Witness ==
    /\ IsSome(spu_frame)
    /\ Unwrap(spu_ret).even_field_data = <<69>>
    /\ Unwrap(spu_ret).odd_field_data = <<150, 0>>
    /\ Unwrap(spu_ret).height = 4
    /\ LET walk == FieldWalk(<<69>>, FieldWidth, 0, 0)
       IN  walk.exhausted /\ walk.x = 2
    /\ FieldWalk(<<69>>, FieldWidth, 0, 2).exhausted


(***************************************************************************)
(* SpecVobx: the VobSubParser with render_at_index and the deband setters  *)
(***************************************************************************)
\* The most "timestamp:" entries of the .idx files loaded here.
MaxLoaded == 2

\* .idx files whose entries point at different places of the .sub
LoadedIdxFiles ==
    { entries \in UNION {[1..n -> [timestamp_ms : {1000, 1500},
                                   file_position : FilePositions]] : n \in 0..MaxLoaded} :
        \A j, k \in 1..Len(entries) :
            j # k => entries[j].file_position # entries[k].file_position }

VobxInit ==
    /\ idx_entries \in LoadedIdxFiles
    /\ sub_file \in SubFiles
    /\ idx_data = None
    /\ sub_data = None
    /\ vs_timestamps_ms = <<>>
    /\ packet_cache = EmptyMap
    /\ vob_call = [op |-> "new", arg |-> 0]
    /\ vob_ret = 0
    /\ deband_config = DebandConfigDefault

\* VobSubParser::render_at_index (vobsub_parser.rs:225-231): the frame is
\* given by the display area of its packet, its pixels are left out
VobRenderAtIndex(index) ==
    LET got == get_or_parse_packet(idx_data, sub_data, packet_cache, index)
    IN  /\ packet_cache' = got.packet_cache
        /\ vob_call' = [op |-> "render_at_index", arg |-> index]
        /\ vob_ret' = IF IsSome(got.ret) /\ IsSome(idx_data)
                      THEN Some([width  |-> Unwrap(got.ret).width,
                                 height |-> Unwrap(got.ret).height])
                      ELSE None
        /\ UNCHANGED <<idx_data, sub_data, vs_timestamps_ms, idx_entries, sub_file>>

VobRender ==
    /\ \E index \in 0..MaxLoaded : VobRenderAtIndex(index)
    /\ UNCHANGED <<pgsVars, histVars, bsVars, rleVars, byteVars, vobxVars>>

\* the deband setters, called with a value out of range
VobSetDebandEnabled ==
    /\ \E enabled \in BOOLEAN : SetDebandEnabled(enabled)
    /\ UNCHANGED <<pgsVars, histVars, vobVars, bsVars, rleVars, byteVars, idxVars, stepVars>>
VobSetDebandThreshold ==
    /\ SetDebandThreshold(300)
    /\ UNCHANGED <<pgsVars, histVars, vobVars, bsVars, rleVars, byteVars, idxVars, stepVars>>
VobSetDebandRange ==
    /\ SetDebandRange(100)
    /\ UNCHANGED <<pgsVars, histVars, vobVars, bsVars, rleVars, byteVars, idxVars, stepVars>>

InitVobx == PgsIdle /\ VobxInit /\ BsIdle /\ RleIdle /\ SpuIdle /\ PesIdle /\ DsIdle
               /\ SupIdle /\ IdxIdle /\ DebIdle /\ StepIdle
NextVobx ==
    \/ VobLoadData
    \/ VobLoadSubOnly
    \/ VobDispose
    \/ VobFind
    \/ VobRender
    \/ VobClear
    \/ VobSetDebandEnabled
    \/ VobSetDebandThreshold
    \/ VobSetDebandRange
SpecVobx == InitVobx /\ [][NextVobx]_vars

\* C28: whatever calls of load, find_index_at_timestamp, render_at_index,
\* clear_cache, the deband setters and dispose were made, the packet cache
\* holds at index i what parse_subtitle_packet returns on the SUB data loaded
\* at the file position of the i-th timestamp entry, a packet or nothing;
\* after a load and after dispose the cache is empty.
C28_CacheHoldsParseOfLoadedData ==
    /\ \A i \in DOMAIN packet_cache :
          /\ IsSome(idx_data)
          /\ IsSome(sub_data)
          /\ i < Len(Unwrap(idx_data).timestamps)
          /\ packet_cache[i] =
                parse_subtitle_packet(Unwrap(sub_data),
                                      Unwrap(idx_data).timestamps[i + 1].file_position)
    /\ vob_call.op \in {"load_from_data", "load_from_sub_only", "dispose"} =>
          packet_cache = EmptyMap

\* the entries 0 and 1 were rendered, so the cache holds what both parse to,
\* a packet for entry 0, and the deband setters were called: debanding is
\* off and the range was clamped to 64
C28_Witness ==
    /\ vob_call.op = "render_at_index"
    /\ DOMAIN packet_cache = {0, 1}
    /\ IsSome(packet_cache[0])
    /\ ~deband_config.enabled
    /\ deband_config.range = 64


\* C29: find_index_at_timestamp leaves the timestamp list, the IDX data, the
\* SUB data, the deband settings and every entry of the packet cache as they
\* were; the one entry it may add to the cache is that of the index it
\* resolved, and with an empty timestamp list or a query before the start
\* time of that index it changes nothing.
C29_FindAddsOnlyResolvedEntry ==
    [][ VobFind =>
          LET T == vs_timestamps_ms
              t == AsU32(vob_call'.arg)
              i == binary_search_timestamp(T, t)
          IN  /\ UNCHANGED <<idx_data, sub_data, vs_timestamps_ms, deband_config>>
              /\ \A k \in DOMAIN packet_cache :
                    k \in DOMAIN packet_cache' /\ packet_cache'[k] = packet_cache[k]
              /\ Len(T) > 0 => DOMAIN packet_cache' \subseteq DOMAIN packet_cache \cup {i}
              /\ (Len(T) = 0 \/ t < T[i + 1]) => packet_cache' = packet_cache
      ]_vars

\* a query inside the window of entry 1 has put that entry into the cache
\* behind entry 0
C29_Witness ==
    /\ vob_call.op = "find_index_at_timestamp"
    /\ Len(vs_timestamps_ms) = 2
    /\ binary_search_timestamp(vs_timestamps_ms, AsU32(vob_call.arg)) = 1
    /\ DOMAIN packet_cache = {0, 1}
    /\ deband_config.threshold = 255


(***************************************************************************)
(* SpecFac: SubtitleRenderer (src/renderer.rs).  The fields of its         *)
(* PgsParser are the variables of the PgsParser above and the fields of    *)
(* its VobSubParser those of the VobSubParser; fac_pgs and fac_vobsub say  *)
(* whether the renderer holds one.  A parser that was dropped leaves its   *)
(* variables as PgsParser::new and VobSubParser::new set them.             *)
(***************************************************************************)
Pgs == "Pgs"
VobSub == "VobSub"

\* the files the host loads: streams of display sets, and .idx files
FacStreams == { <<>>, <<1, 3>>, <<1, 4, 2>> }
FacIdxFiles ==
    { <<>>,
      << [timestamp_ms |-> 1000, file_position |-> 0] >>,
      << [timestamp_ms |-> 1000, file_position |-> 0],
         [timestamp_ms |-> 1500, file_position |-> 3] >> }
FacIndices == 0..2
FacQueryTimes == {-1, 999, 1000, 2500, 10000}
FacQuerySeconds == {0, 1, 2, 10}

\* SubtitleRenderer::new (renderer.rs:33-39)
FacInit ==
    /\ fac_format = None
    /\ fac_pgs = None
    /\ fac_vobsub = None
    /\ fac_call = [op |-> "new", arg |-> 0]
    /\ fac_ret = 0
    /\ sup_input \in FacStreams
    /\ display_sets = <<>>
    /\ timestamps_ms = <<>>
    /\ indexed_cache = EmptyMap
    /\ last_boundary_index = None
    /\ rgba_buffer = <<>>
    /\ pgs_call = [op |-> "new", arg |-> 0]
    /\ pgs_ret = 0
    /\ cache_epoch = EmptyMap
    /\ idx_entries \in FacIdxFiles
    /\ sub_file \in SubFiles
    /\ idx_data = None
    /\ sub_data = None
    /\ vs_timestamps_ms = <<>>
    /\ packet_cache = EmptyMap
    /\ vob_call = [op |-> "new", arg |-> 0]
    /\ vob_ret = 0

\* PgsParser::new (parser.rs:40-48)
PgsNew ==
    /\ display_sets' = <<>>
    /\ timestamps_ms' = <<>>
    /\ indexed_cache' = EmptyMap
    /\ last_boundary_index' = None
    /\ rgba_buffer' = <<>>
    /\ pgs_call' = [op |-> "new", arg |-> 0]
    /\ pgs_ret' = 0
    /\ cache_epoch' = EmptyMap
    /\ UNCHANGED sup_input

\* VobSubParser::new (vobsub_parser.rs:33-41)
VobNew ==
    /\ idx_data' = None
    /\ sub_data' = None
    /\ vs_timestamps_ms' = <<>>
    /\ packet_cache' = EmptyMap
    /\ vob_call' = [op |-> "new", arg |-> 0]
    /\ vob_ret' = 0
    /\ UNCHANGED <<idx_entries, sub_file>>

\* load_pgs with the VobSubParser kept
FacLoadPgsKeepingVobSub ==
    /\ Parse(StreamSets(sup_input))
    /\ UNCHANGED vobVars
    /\ fac_pgs' = Some("PgsParser")
    /\ fac_vobsub' = fac_vobsub
    /\ fac_format' = Some(Pgs)
    /\ fac_call' = [op |-> "load_pgs", arg |-> 0]
    /\ fac_ret' = Len(sup_input)

\* load_pgs (renderer.rs:43-54): dispose, then a new PgsParser parses the data
FacLoadPgs ==
    /\ Parse(StreamSets(sup_input))
    /\ VobNew
    /\ fac_pgs' = Some("PgsParser")
    /\ fac_vobsub' = None
    /\ fac_format' = Some(Pgs)
    /\ fac_call' = [op |-> "load_pgs", arg |-> 0]
    /\ fac_ret' = pgs_ret'

\* load_vobsub (renderer.rs:57-66)
FacLoadVobSub ==
    /\ PgsNew
    /\ LoadFromData
    /\ fac_pgs' = None
    /\ fac_vobsub' = Some("VobSubParser")
    /\ fac_format' = Some(VobSub)
    /\ fac_call' = [op |-> "load_vobsub", arg |-> 0]
    /\ fac_ret' = 0

\* load_vobsub_only (renderer.rs:69-78)
FacLoadVobSubOnly ==
    /\ PgsNew
    /\ LoadFromSubOnly
    /\ fac_pgs' = None
    /\ fac_vobsub' = Some("VobSubParser")
    /\ fac_format' = Some(VobSub)
    /\ fac_call' = [op |-> "load_vobsub_only", arg |-> 0]
    /\ fac_ret' = 0

\* count (renderer.rs:87-94)
FacCount ==
    /\ fac_call' = [op |-> "count", arg |-> 0]
    /\ fac_ret' = IF fac_format = Some(Pgs)
                  THEN (IF IsSome(fac_pgs) THEN Len(display_sets) ELSE 0)
                  ELSE IF fac_format = Some(VobSub)
                  THEN (IF IsSome(fac_vobsub) THEN Len(vs_timestamps_ms) ELSE 0)
                  ELSE 0
    /\ UNCHANGED <<fac_format, fac_pgs, fac_vobsub, pgsVars, vobVars>>

\* find_index_at_timestamp (renderer.rs:113-126)
FacFindIndexAtTimestamp(time_ms) ==
    /\ fac_call' = [op |-> "find_index_at_timestamp", arg |-> time_ms]
    /\ IF fac_format = Some(Pgs) /\ IsSome(fac_pgs)
       THEN FindIndexAtTimestamp(time_ms) /\ fac_ret' = pgs_ret' /\ UNCHANGED vobVars
       ELSE IF fac_format = Some(VobSub) /\ IsSome(fac_vobsub)
       THEN VobFindIndexAtTimestamp(time_ms) /\ fac_ret' = vob_ret' /\ UNCHANGED pgsVars
       ELSE fac_ret' = -1 /\ UNCHANGED <<pgsVars, vobVars>>
    /\ UNCHANGED <<fac_format, fac_pgs, fac_vobsub>>

\* the RenderResult made of a SubtitleFrame (renderer.rs:137-155)
ResultOfPgs(frame) ==
    IF IsSome(frame)
    THEN Some([ screen_width  |-> Unwrap(frame).width,
                screen_height |-> Unwrap(frame).height,
                compositions  |-> Unwrap(frame).compositions ])
    ELSE None

\* the RenderResult made of a VobSubFrame (renderer.rs:161-171): one
\* composition
ResultOfVobSub(frame) ==
    IF IsSome(frame) THEN Some([compositions |-> <<Unwrap(frame)>>]) ELSE None

\* render_at_index (renderer.rs:131-175)
FacRenderAtIndex(index) ==
    /\ fac_call' = [op |-> "render_at_index", arg |-> index]
    /\ IF fac_format = Some(Pgs) /\ IsSome(fac_pgs)
       THEN RenderAtIndex(index) /\ fac_ret' = ResultOfPgs(pgs_ret') /\ UNCHANGED vobVars
       ELSE IF fac_format = Some(VobSub) /\ IsSome(fac_vobsub)
       THEN VobRenderAtIndex(index) /\ fac_ret' = ResultOfVobSub(vob_ret')
               /\ UNCHANGED pgsVars
       ELSE fac_ret' = None /\ UNCHANGED <<pgsVars, vobVars>>
    /\ UNCHANGED <<fac_format, fac_pgs, fac_vobsub>>

\* render_at_timestamp (renderer.rs:179-186): find_index_at_timestamp, then
\* render_at_index on the index found
FacRenderAtTimestamp(time_seconds) ==
    /\ fac_call' = [op |-> "render_at_timestamp", arg |-> time_seconds]
    /\ \E time_ms \in {time_seconds * 1000} :
          IF fac_format = Some(Pgs) /\ IsSome(fac_pgs)
          THEN /\ \E index \in {pgs_find_index_at_timestamp(timestamps_ms, time_ms)} :
                     IF index < 0
                     THEN FindIndexAtTimestamp(time_ms) /\ fac_ret' = None
                     ELSE RenderAtIndex(index) /\ fac_ret' = ResultOfPgs(pgs_ret')
               /\ UNCHANGED vobVars
          ELSE IF fac_format = Some(VobSub) /\ IsSome(fac_vobsub)
          THEN /\ \E found \in {vob_find_index_at_timestamp(
                                    idx_data, sub_data, vs_timestamps_ms, packet_cache,
                                    time_ms)} :
                     IF found.ret < 0
                     THEN /\ packet_cache' = found.packet_cache
                          /\ vob_call' = [op |-> "find_index_at_timestamp", arg |-> time_ms]
                          /\ vob_ret' = -1
                          /\ fac_ret' = None
                     ELSE \E got \in {get_or_parse_packet(idx_data, sub_data,
                                                          found.packet_cache, found.ret)} :
                             /\ packet_cache' = got.packet_cache
                             /\ vob_call' = [op |-> "render_at_index", arg |-> found.ret]
                             /\ vob_ret' = IF IsSome(got.ret) /\ IsSome(idx_data)
                                           THEN Some([width  |-> Unwrap(got.ret).width,
                                                      height |-> Unwrap(got.ret).height])
                                           ELSE None
                             /\ fac_ret' = ResultOfVobSub(vob_ret')
               /\ UNCHANGED <<idx_data, sub_data, vs_timestamps_ms, idx_entries, sub_file>>
               /\ UNCHANGED pgsVars
          ELSE fac_ret' = None /\ UNCHANGED <<pgsVars, vobVars>>
    /\ UNCHANGED <<fac_format, fac_pgs, fac_vobsub>>

\* clear_cache (renderer.rs:190-197)
FacClearCache ==
    /\ fac_call' = [op |-> "clear_cache", arg |-> 0]
    /\ fac_ret' = 0
    /\ IF IsSome(fac_pgs) THEN ClearCache ELSE UNCHANGED pgsVars
    /\ IF IsSome(fac_vobsub) THEN VobClearCache ELSE UNCHANGED vobVars
    /\ UNCHANGED <<fac_format, fac_pgs, fac_vobsub>>

\* dispose (renderer.rs:201-205)
FacDispose ==
    /\ PgsNew
    /\ VobNew
    /\ fac_pgs' = None
    /\ fac_vobsub' = None
    /\ fac_format' = None
    /\ fac_call' = [op |-> "dispose", arg |-> 0]
    /\ fac_ret' = 0

FacOthers == <<histVars, bsVars, rleVars, byteVars, idxVars, debVars, curVars, scanVars, rcVars>>

LoadPgs == FacLoadPgs /\ UNCHANGED FacOthers
LoadVobSub == FacLoadVobSub /\ UNCHANGED FacOthers
LoadVobSubOnly == FacLoadVobSubOnly /\ UNCHANGED FacOthers
FacadeCount == FacCount /\ UNCHANGED FacOthers
FacadeFind == (\E time_ms \in FacQueryTimes : FacFindIndexAtTimestamp(time_ms)) /\ UNCHANGED FacOthers
FacadeRenderAtIndex == (\E index \in FacIndices : FacRenderAtIndex(index)) /\ UNCHANGED FacOthers
FacadeRenderAtTimestamp ==
    (\E time_seconds \in FacQuerySeconds : FacRenderAtTimestamp(time_seconds))
        /\ UNCHANGED FacOthers
FacadeClearCache == FacClearCache /\ UNCHANGED FacOthers
FacadeDispose == FacDispose /\ UNCHANGED FacOthers

InitFac == FacInit /\ HistInit /\ BsIdle /\ RleIdle /\ SpuIdle /\ PesIdle /\ DsIdle /\ SupIdle
              /\ IdxIdle /\ DebIdle /\ CurIdle /\ ScanIdle /\ RcIdle
NextFac ==
    \/ LoadPgs
    \/ LoadVobSub
    \/ LoadVobSubOnly
    \/ FacadeCount
    \/ FacadeFind
    \/ FacadeRenderAtIndex
    \/ FacadeRenderAtTimestamp
    \/ FacadeClearCache
    \/ FacadeDispose
SpecFac == InitFac /\ [][NextFac]_vars

\* C30: whatever facade operations were called, the format is Pgs exactly
\* when the renderer holds a PgsParser and no VobSubParser, VobSub exactly
\* when it holds a VobSubParser and no PgsParser, and unset exactly when it
\* holds neither; while the format is unset count returns 0,
\* find_index_at_timestamp returns -1, and render_at_index and
\* render_at_timestamp return nothing.
C30_FormatTracksTheOnlyDecoder ==
    /\ fac_format \in {None, Some(Pgs), Some(VobSub)}
    /\ fac_format = Some(Pgs) <=> (IsSome(fac_pgs) /\ ~IsSome(fac_vobsub))
    /\ fac_format = Some(VobSub) <=> (IsSome(fac_vobsub) /\ ~IsSome(fac_pgs))
    /\ fac_format = None <=> (~IsSome(fac_pgs) /\ ~IsSome(fac_vobsub))
    /\ fac_format = None =>
          /\ fac_call.op = "count" => fac_ret = 0
          /\ fac_call.op = "find_index_at_timestamp" => fac_ret = -1
          /\ fac_call.op \in {"render_at_index", "render_at_timestamp"} => fac_ret = None

\* a PGS stream was loaded over a VobSub decoder, and a frame rendered by
\* timestamp
C30_Witness ==
    /\ fac_format = Some(Pgs)
    /\ IsSome(fac_pgs)
    /\ fac_call.op = "render_at_timestamp"
    /\ IsSome(fac_ret)
    /\ sub_data = None

=============================================================================
